---- MODULE Spec2Model ----
(***************************************************************************)
(* Network tasks of the Octavia controller worker                          *)
(* (octavia/controller/worker/v1/tasks/network_tasks.py).                  *)
(*                                                                         *)
(* Every task is a compensatable step: execute(inputs) and, for some,      *)
(* revert(outcome, inputs).  A step talks to the network driver, whose     *)
(* calls may fail.  One action models one whole handler run: the handler   *)
(* is an operator that returns the set of all runs the driver's answers    *)
(* allow, each run being the record                                        *)
(*     [plugged, calls, exc, ...]                                          *)
(* of the NIC attachments afterwards, the log of driver calls with the     *)
(* answer to each, and the exception that escaped ("none" if it returned). *)
(***************************************************************************)
EXTENDS Integers, Sequences, FiniteSets, TLC

\* ------------------------------------------------------------------------
\* Bounds
\* ------------------------------------------------------------------------
MaxNet == 2          \* network ids are 1..MaxNet
NumAmps == 2         \* amphorae of the load balancer
MaxMembers == 2      \* members of the one pool of the load balancer
max_retries == 2     \* CONF.networking.max_retries

\* ------------------------------------------------------------------------
\* Values
\* ------------------------------------------------------------------------
NoneId == 0                       \* Python None where an id is expected
Nets == 1..MaxNet
NetIds == {NoneId} \cup Nets
Amps == 1..NumAmps                \* amphora a runs on compute instance a
None == [none |-> TRUE]           \* Python None where an object is expected
IsNone(x) == "none" \in DOMAIN x

\* CONF.controller_worker.amp_boot_network_list
amp_boot_network_list == <<1>>

\* the subnet s of network n, and back (driver data)
SubnetOf(n) == 10 + n
NetworkOfSubnet(s) == s - 10
Subnets == {SubnetOf(n) : n \in Nets}

\* the port of the NIC of compute c on network n, and back (driver data)
PortId(c, n) == 100 * c + n
PortNetwork(p) == p % 100

Range(s) == {s[i] : i \in DOMAIN s}
Perms(S) == {s \in [1..Cardinality(S) -> S] :
                \A i, j \in 1..Cardinality(S) : i # j => s[i] # s[j]}

\* ------------------------------------------------------------------------
\* State
\* ------------------------------------------------------------------------
VARIABLES
    plugged,     \* driver: plugged[c][n] = number of NICs of compute c on n
    amphorae,    \* in-memory amphora objects: vrrp_port_id, ha_port_id
    persisted,   \* repository: the QoS policy id of the load balancer's VIP
    task,        \* the step of this workflow instance
    phase,       \* "ready", "executed" (execute ran), "reverted" (revert ran)
    args,        \* the inputs the workflow store holds for the step
    outcome,     \* what its execute left: a result or a failure marker
    execCalls,   \* driver calls of its execute, with their answers
    revCalls,    \* driver calls of its revert, with their answers
    raised,      \* the exception that escaped the handler that ran last
    vanished     \* a NIC was detached behind the controller's back

vars == <<plugged, amphorae, persisted, task, phase, args, outcome,
          execCalls, revCalls, raised, vanished>>

\* taskflow.types.failure.Failure, and a normal result
Failure(e) == [kind |-> "failure", value |-> e]
Result(v) == [kind |-> "result", value |-> v]
IsFailure(o) == o.kind = "failure"

\* ------------------------------------------------------------------------
\* The network driver
\* ------------------------------------------------------------------------
Call(op, a, out) == [op |-> op, args |-> a, out |-> out]

\* a run so far: the driver state, the call log, the pending exception
\* and what the handler has built so far to return
Run(p) == [plugged |-> p, calls |-> <<>>, exc |-> "none", ret |-> <<>>]

\* raise e
Raise(m, e) == [m EXCEPT !.exc = e]

AllExceptions == {"Exception", "NetworkNotFound", "PortNotFound",
                  "SecurityGroupNotFound", "AttributeError", "TypeError",
                  "UnboundLocalError"}

Answer(m, op, a, out, p) ==
    [m EXCEPT !.plugged = p,
              !.calls = Append(m.calls, Call(op, a, out)),
              !.exc = IF out \in AllExceptions THEN out ELSE "none"]

\* a call that leaves the NICs alone and answers one of outs
DriverCall(m, op, a, outs) == {Answer(m, op, a, o, m.plugged) : o \in outs}
Fallible == {"ok", "Exception"}

\* a read-only call: it answers or it fails with a driver error
ReadCall(m, op, a) ==
    {Answer(m, op, a, "ok", m.plugged),
     Answer(m, op, a, "Exception", m.plugged)}

get_port(m, port_id) == ReadCall(m, "get_port", <<port_id>>)
get_subnet(m, subnet_id) == ReadCall(m, "get_subnet", <<subnet_id>>)
get_network(m, network_id) == ReadCall(m, "get_network", <<network_id>>)
get_plugged_networks(m, c) == ReadCall(m, "get_plugged_networks", <<c>>)

\* the Interface records get_plugged_networks returns, by network id
RECURSIVE Repeat(_, _)
Repeat(x, k) == IF k = 0 THEN <<>> ELSE <<x>> \o Repeat(x, k - 1)

RECURSIVE NicsFrom(_, _, _)
NicsFrom(p, c, n) ==
    IF n > MaxNet THEN <<>>
    ELSE Repeat([network_id |-> n, port_id |-> PortId(c, n)], p[c][n])
         \o NicsFrom(p, c, n + 1)

PluggedNics(p, c) == NicsFrom(p, c, NoneId)

\* plug_network attaches one more NIC, or fails and attaches nothing
plug_network(m, c, n) ==
    {Answer(m, "plug_network", <<c, n>>, "ok",
            [m.plugged EXCEPT ![c][n] = @ + 1]),
     Answer(m, "plug_network", <<c, n>>, "Exception", m.plugged)}

\* unplug_network detaches the NICs of c on n; NetworkNotFound if there is
\* none; or it fails with a driver error and detaches nothing
unplug_network(m, c, n) ==
    {IF m.plugged[c][n] = 0
       THEN Answer(m, "unplug_network", <<c, n>>, "NetworkNotFound",
                   m.plugged)
       ELSE Answer(m, "unplug_network", <<c, n>>, "ok",
                   [m.plugged EXCEPT ![c][n] = 0]),
     Answer(m, "unplug_network", <<c, n>>, "Exception", m.plugged)}

\* the runs that continue with F after the runs of S that did not raise
Then(S, F(_)) == UNION {IF m.exc = "none" THEN F(m) ELSE {m} : m \in S}

\* except E: pass
Swallow(S, E) == {IF m.exc \in E THEN [m EXCEPT !.exc = "none"] ELSE m :
                    m \in S}

\* ------------------------------------------------------------------------
\* CalculateAmphoraDelta
\* ------------------------------------------------------------------------
Interface(n) == [network_id |-> n, port_id |-> NoneId]

Delta(a, c, add, del) ==
    [amphora_id |-> a, compute_id |-> c, add_nics |-> add,
     delete_nics |-> del]

\* management networks that add the zone's network to the configured list
ManagementNetsMerged(az) ==
    IF ~IsNone(az)
      THEN {az.management_network} \cup Range(amp_boot_network_list)
      ELSE Range(amp_boot_network_list)

\* management_nets: [az.get(MANAGEMENT_NETWORK)] or the configured list;
\* a one-element list is never falsy
ManagementNets(az) ==
    IF ~IsNone(az)
      THEN (IF <<az.management_network>> # <<>>
              THEN {az.management_network}
              ELSE Range(amp_boot_network_list))
      ELSE Range(amp_boot_network_list)

\* one get_subnet call per member with a subnet id, in order
RECURSIVE MemberSubnetCalls(_, _)
MemberSubnetCalls(m, members) ==
    IF members = <<>> THEN {m}
    ELSE IF Head(members) = NoneId
           THEN MemberSubnetCalls(m, Tail(members))
           ELSE Then(get_subnet(m, Head(members)),
                     LAMBDA r : MemberSubnetCalls(r, Tail(members)))

RECURSIVE PoolCalls(_, _)
PoolCalls(m, pools) ==
    IF pools = <<>> THEN {m}
    ELSE Then(MemberSubnetCalls(m, Head(pools)),
              LAMBDA r : PoolCalls(r, Tail(pools)))

MemberNetworks(pools) ==
    {NetworkOfSubnet(pools[i][j]) :
        <<i, j>> \in {<<i, j>> \in (DOMAIN pools) \X (1..MaxMembers) :
                         j \in DOMAIN pools[i] /\ pools[i][j] # NoneId}}

\* dict((nic.network_id, nic) for nic in nics): the last NIC of a network
ActualNetworkNics(nics) ==
    [n \in {nics[i].network_id : i \in DOMAIN nics} |->
        nics[CHOOSE i \in DOMAIN nics :
                /\ nics[i].network_id = n
                /\ \A j \in DOMAIN nics :
                      nics[j].network_id = n => j <= i]]

\* a delta that also asks for the desired networks that are plugged
DeltasAddingAllDesired(a, desired_network_ids, nics) ==
    LET actual_network_nics == ActualNetworkNics(nics)
        del_ids == DOMAIN actual_network_nics \ desired_network_ids
    IN  {Delta(a, a,
               [i \in DOMAIN ao |-> Interface(ao[i])],
               [i \in DOMAIN do |-> actual_network_nics[do[i]]]) :
            ao \in Perms(desired_network_ids), do \in Perms(del_ids)}

\* a delta that deletes every reported NIC of an undesired network
DeltasDeletingEveryNic(a, desired_network_ids, nics) ==
    LET actual_network_nics == ActualNetworkNics(nics)
        add_ids == desired_network_ids \ DOMAIN actual_network_nics
    IN  {Delta(a, a,
               [i \in DOMAIN ao |-> Interface(ao[i])],
               SelectSeq(nics, LAMBDA nic :
                            nic.network_id \notin desired_network_ids)) :
            ao \in Perms(add_ids)}

\* the deltas execute can return once the driver answered: the lists are
\* built from Python sets, whose iteration order is not specified
DeltasFor(a, desired_network_ids, nics) ==
    LET actual_network_nics == ActualNetworkNics(nics)
        del_ids == DOMAIN actual_network_nics \ desired_network_ids
        add_ids == desired_network_ids \ DOMAIN actual_network_nics
    IN  {Delta(a, a,
               [i \in DOMAIN ao |-> Interface(ao[i])],
               [i \in DOMAIN do |-> actual_network_nics[do[i]]]) :
            ao \in Perms(add_ids), do \in Perms(del_ids)}

\* CalculateAmphoraDelta.execute continuing the run m: the runs, each
\* returning its delta in ret
DesiredNetworkIds(amps, pools, a, az, vrrp_port) ==
    LET vrrp_network_id ==
            IF IsNone(vrrp_port)
              THEN PortNetwork(amps[a].vrrp_port_id)
              ELSE vrrp_port.network_id
    IN  {vrrp_network_id} \cup ManagementNets(az) \cup MemberNetworks(pools)

CalculateAmphoraDelta_execute(m0, amps, pools, a, az, vrrp_port) ==
    LET s1 == IF IsNone(vrrp_port)
                THEN get_port(m0, amps[a].vrrp_port_id)
                ELSE {m0}
        desired_network_ids ==
            DesiredNetworkIds(amps, pools, a, az, vrrp_port)
        s2 == Then(s1, LAMBDA m : PoolCalls(m, pools))
        s3 == Then(s2, LAMBDA m : get_plugged_networks(m, a))
    IN  Then(s3, LAMBDA m :
                {[m EXCEPT !.ret = <<d>>] :
                    d \in DeltasFor(a, desired_network_ids,
                                    PluggedNics(m.plugged, a))})

\* the inputs the callers pass
AZs == {None} \cup {[management_network |-> n] : n \in NetIds}
\* member lists up to the order of the members
MemberLists ==
    {ms \in UNION {[1..k -> {NoneId} \cup Subnets] : k \in 0..MaxMembers} :
        \A i, j \in DOMAIN ms : i < j => ms[i] <= ms[j]}
Distinct(ms) == \A i, j \in DOMAIN ms : i # j => ms[i] # ms[j]
Pools == {<<>>} \cup {<<ms>> : ms \in MemberLists}
Port(p) == [id |-> p, network_id |-> PortNetwork(p)]

\* what an execute and a revert leave in the state
Executed(r, res) ==
    /\ phase' = "executed"
    /\ plugged' = r.plugged
    /\ execCalls' = r.calls
    /\ revCalls' = <<>>
    /\ raised' = r.exc
    /\ outcome' = IF r.exc = "none" THEN Result(res) ELSE Failure(r.exc)
    /\ UNCHANGED <<amphorae, persisted, task, args, vanished>>

\* the step is ready to run
Ready(t) == phase = "ready" /\ task = t
\* execute ran; the engine calls revert with its result when a later step
\* failed, and with a failure marker when execute itself raised
Revertible(t) == phase = "executed" /\ task = t

Reverted(r) ==
    /\ phase' = "reverted"
    /\ plugged' = r.plugged
    /\ revCalls' = r.calls
    /\ raised' = r.exc
    /\ UNCHANGED <<amphorae, persisted, task, args, outcome, execCalls,
                   vanished>>

CalculateAmphoraDeltaExecute ==
    /\ Ready("CalculateAmphoraDelta")
    /\ \E r \in CalculateAmphoraDelta_execute(
                    Run(plugged), amphorae, args.loadbalancer.pools,
                    args.amphora, args.availability_zone, args.vrrp_port) :
         Executed(r, r.ret)

\* ------------------------------------------------------------------------
\* CalculateDelta
\* ------------------------------------------------------------------------
AMPHORA_ALLOCATED == "ALLOCATED"
AmphoraStatuses == {AMPHORA_ALLOCATED, "DELETED"}

\* a loop that computes a delta for every amphora, whatever its status
RECURSIVE CalculateDeltaForAll(_, _, _, _, _, _)
CalculateDeltaForAll(m, amps, pools, status, az, a) ==
    IF a > NumAmps THEN {m}
    ELSE Then(CalculateAmphoraDelta_execute(m, amps, pools, a, az, None),
              LAMBDA r :
                 CalculateDeltaForAll(
                     [r EXCEPT !.ret = Append(m.ret, [amp_id |-> a,
                                                      delta |-> r.ret[1]])],
                     amps, pools, status, az, a + 1))

\* the loop over loadbalancer.amphorae, from amphora a on; ret collects
\* the dict amphora id -> delta as a list of items in insertion order
RECURSIVE CalculateDeltaFrom(_, _, _, _, _, _)
CalculateDeltaFrom(m, amps, pools, status, az, a) ==
    IF a > NumAmps THEN {m}
    ELSE IF status[a] # AMPHORA_ALLOCATED
           THEN CalculateDeltaFrom(m, amps, pools, status, az, a + 1)
           ELSE Then(CalculateAmphoraDelta_execute(m, amps, pools, a, az,
                                                   None),
                     LAMBDA r :
                        CalculateDeltaFrom(
                            [r EXCEPT !.ret =
                                Append(m.ret, [amp_id |-> a,
                                               delta |-> r.ret[1]])],
                            amps, pools, status, az, a + 1))

\* an execute that returns the deltas it has when an amphora fails
CalculateDelta_execute_Partial(p, amps, pools, status, az) ==
    Swallow(CalculateDeltaFrom(Run(p), amps, pools, status, az, 1),
            AllExceptions)

CalculateDelta_execute(p, amps, pools, status, az) ==
    CalculateDeltaFrom(Run(p), amps, pools, status, az, 1)

CalculateDeltaExecute ==
    /\ Ready("CalculateDelta")
    /\ \E r \in CalculateDelta_execute(
                    plugged, amphorae, args.loadbalancer.pools,
                    args.loadbalancer.amphorae, args.availability_zone) :
         Executed(r, r.ret)

\* ------------------------------------------------------------------------
\* PlugNetworks
\* ------------------------------------------------------------------------
\* a loop that plugs every add_nics entry twice
RECURSIVE PlugNicsTwice(_, _, _)
PlugNicsTwice(m, c, nics) ==
    IF nics = <<>> THEN {m}
    ELSE Then(plug_network(m, c, Head(nics).network_id), LAMBDA r :
           Then(plug_network(r, c, Head(nics).network_id),
                LAMBDA r2 : PlugNicsTwice(r2, c, Tail(nics))))

RECURSIVE PlugNics(_, _, _)
PlugNics(m, c, nics) ==
    IF nics = <<>> THEN {m}
    ELSE Then(plug_network(m, c, Head(nics).network_id),
              LAMBDA r : PlugNics(r, c, Tail(nics)))

\* an execute that reads the NICs of the amphora before it plugs
PlugNetworks_execute_Probing(p, amphora, d) ==
    Then(get_plugged_networks(Run(p), amphora),
         LAMBDA m : IF IsNone(d) THEN {m}
                    ELSE PlugNics(m, amphora, d.add_nics))

PlugNetworks_execute(p, amphora, d) ==
    IF IsNone(d) THEN {Run(p)}
    ELSE PlugNics(Run(p), amphora, d.add_nics)

\* an unplug loop that lets every error but NetworkNotFound escape
RECURSIVE UnplugStoppingAtError(_, _, _)
UnplugStoppingAtError(m, c, nics) ==
    IF nics = <<>> THEN {m}
    ELSE Then(Swallow(unplug_network(m, c, Head(nics).network_id),
                      {"NetworkNotFound"}),
              LAMBDA r : UnplugStoppingAtError(r, c, Tail(nics)))

\* for nic in nics: try unplug_network except NetworkNotFound / Exception
RECURSIVE UnplugIgnoringAll(_, _, _)
UnplugIgnoringAll(m, c, nics) ==
    IF nics = <<>> THEN {m}
    ELSE Then(Swallow(unplug_network(m, c, Head(nics).network_id),
                      AllExceptions),
              LAMBDA r : UnplugIgnoringAll(r, c, Tail(nics)))

\* for nic in nics: try unplug_network except NetworkNotFound: pass
RECURSIVE UnplugIgnoringNotFound(_, _, _)
UnplugIgnoringNotFound(m, c, nics) ==
    IF nics = <<>> THEN {m}
    ELSE Then(Swallow(unplug_network(m, c, Head(nics).network_id),
                      {"NetworkNotFound"}),
              LAMBDA r : UnplugIgnoringNotFound(r, c, Tail(nics)))

\* a revert that ignores every error of unplug_network
PlugNetworks_revert_IgnoringAll(p, amphora, d) ==
    IF IsNone(d) THEN {Run(p)}
    ELSE UnplugIgnoringAll(Run(p), amphora, d.add_nics)

PlugNetworks_revert(p, amphora, d) ==
    IF IsNone(d) THEN {Run(p)}
    ELSE UnplugIgnoringNotFound(Run(p), amphora, d.add_nics)

PlugNetworksExecute ==
    /\ Ready("PlugNetworks")
    /\ \E r \in PlugNetworks_execute(plugged, args.amphora, args.delta) :
         Executed(r, None)

PlugNetworksRevert ==
    /\ Revertible("PlugNetworks")
    /\ \E r \in PlugNetworks_revert(plugged, args.amphora, args.delta) :
         Reverted(r)

\* ------------------------------------------------------------------------
\* UnPlugNetworks
\* ------------------------------------------------------------------------
\* an execute that ignores NetworkNotFound alone
UnPlugNetworks_execute_Strict(p, amphora, d) ==
    IF IsNone(d) THEN {Run(p)}
    ELSE UnplugIgnoringNotFound(Run(p), amphora, d.delete_nics)

UnPlugNetworks_execute(p, amphora, d) ==
    IF IsNone(d) THEN {Run(p)}
    ELSE UnplugIgnoringAll(Run(p), amphora, d.delete_nics)

UnPlugNetworksExecute ==
    /\ Ready("UnPlugNetworks")
    /\ \E r \in UnPlugNetworks_execute(plugged, args.amphora, args.delta) :
         Executed(r, None)

\* ------------------------------------------------------------------------
\* HandleNetworkDelta
\* ------------------------------------------------------------------------
\* the port get_port returns for a NIC, its fixed IPs, and the port with
\* its network and the subnets of its fixed IPs filled in
FixedIps(n) == <<[subnet_id |-> SubnetOf(n)]>>
ResolvedPort(p) ==
    [id |-> p, network_id |-> PortNetwork(p),
     network |-> [id |-> PortNetwork(p)],
     fixed_ips |-> [i \in DOMAIN FixedIps(PortNetwork(p)) |->
                      [subnet_id |-> FixedIps(PortNetwork(p))[i].subnet_id,
                       subnet |-> [id |-> FixedIps(PortNetwork(p))[i]
                                              .subnet_id]]]]

RECURSIVE ResolveFixedIps(_, _)
ResolveFixedIps(m, fixed_ips) ==
    IF fixed_ips = <<>> THEN {m}
    ELSE Then(get_subnet(m, Head(fixed_ips).subnet_id),
              LAMBDA r : ResolveFixedIps(r, Tail(fixed_ips)))

\* a body that records the port as get_port returned it, unresolved
AddNicUnresolved(m, c, n) ==
    Then(plug_network(m, c, n), LAMBDA m1 :
      Then(get_port(m1, PortId(c, n)), LAMBDA m2 :
        {[m2 EXCEPT !.ret[Len(m2.ret)].ports =
             Append(@, [id |-> PortId(c, n),
                        network_id |-> PortNetwork(PortId(c, n)),
                        fixed_ips |-> FixedIps(PortNetwork(PortId(c, n)))])]}))

\* the body of "for nic in delta.add_nics"; the ports are collected in
\* the last item of ret
AddNic(m, c, n) ==
    Then(plug_network(m, c, n), LAMBDA m1 :
      Then(get_port(m1, PortId(c, n)), LAMBDA m2 :
        Then(get_network(m2, PortNetwork(PortId(c, n))), LAMBDA m3 :
          Then(ResolveFixedIps(m3, FixedIps(PortNetwork(PortId(c, n)))),
               LAMBDA m4 :
                 {[m4 EXCEPT !.ret[Len(m4.ret)].ports =
                      Append(@, ResolvedPort(PortId(c, n)))]}))))

RECURSIVE AddNics(_, _, _)
AddNics(m, c, nics) ==
    IF nics = <<>> THEN {m}
    ELSE Then(AddNic(m, c, Head(nics).network_id),
              LAMBDA r : AddNics(r, c, Tail(nics)))

\* the two loops in the other order: delete_nics first, then add_nics
HandleDeltaDeletingFirst(m, amp_id, d) ==
    LET m0 == [m EXCEPT !.ret = Append(@, [amp_id |-> amp_id,
                                           ports |-> <<>>])]
    IN  IF IsNone(d) THEN {Raise(m0, "AttributeError")}
        ELSE Then(UnplugIgnoringAll(m0, d.compute_id, d.delete_nics),
                  LAMBDA r : AddNics(r, d.compute_id, d.add_nics))

\* added_ports[amp_id] = [], then the two loops over the delta
HandleDelta(m, amp_id, d) ==
    LET m0 == [m EXCEPT !.ret = Append(@, [amp_id |-> amp_id,
                                           ports |-> <<>>])]
    IN  IF IsNone(d) THEN {Raise(m0, "AttributeError")}
        ELSE Then(AddNics(m0, d.compute_id, d.add_nics),
                  LAMBDA r : UnplugIgnoringAll(r, d.compute_id,
                                               d.delete_nics))

\* an execute that applies add_nics and leaves delete_nics alone
HandleNetworkDelta_execute_AddingOnly(p, amphora, d) ==
    IF IsNone(d) THEN HandleDelta(Run(p), amphora, d)
    ELSE HandleDelta(Run(p), amphora, [d EXCEPT !.delete_nics = <<>>])

HandleNetworkDelta_execute(p, amphora, d) == HandleDelta(Run(p), amphora, d)

\* a revert that undoes whatever the outcome of execute was
HandleNetworkDelta_revert_Always(p, result, amphora, d) ==
    IF IsNone(d) THEN {Run(p)}
    ELSE UnplugIgnoringAll(Run(p), d.compute_id, d.add_nics)

\* a revert that is a full inverse: it also plugs delete_nics again
HandleNetworkDelta_revert_Restoring(p, result, amphora, d) ==
    IF IsFailure(result) THEN {Run(p)}
    ELSE IF IsNone(d) THEN {Run(p)}
    ELSE Then(UnplugIgnoringAll(Run(p), d.compute_id, d.add_nics),
              LAMBDA r : PlugNics(r, d.compute_id, d.delete_nics))

HandleNetworkDelta_revert(p, result, amphora, d) ==
    IF IsFailure(result) THEN {Run(p)}
    ELSE IF IsNone(d) THEN {Run(p)}
    ELSE UnplugIgnoringAll(Run(p), d.compute_id, d.add_nics)

HandleNetworkDeltaExecute ==
    /\ Ready("HandleNetworkDelta")
    /\ \E r \in HandleNetworkDelta_execute(plugged, args.amphora,
                                           args.delta) :
         Executed(r, r.ret)

HandleNetworkDeltaRevert ==
    /\ Revertible("HandleNetworkDelta")
    /\ \E r \in HandleNetworkDelta_revert(plugged, outcome, args.amphora,
                                          args.delta) :
         Reverted(r)

\* ------------------------------------------------------------------------
\* HandleNetworkDeltas
\* ------------------------------------------------------------------------
\* for amp_id, delta in deltas.items()
RECURSIVE HandleDeltas(_, _)
HandleDeltas(m, items) ==
    IF items = <<>> THEN {m}
    ELSE Then(HandleDelta(m, Head(items).amp_id, Head(items).delta),
              LAMBDA r : HandleDeltas(r, Tail(items)))

HandleNetworkDeltas_execute(p, items) == HandleDeltas(Run(p), items)

\* a loop of revert that ignores every error of unplug_network
RECURSIVE RevertDeltasIgnoringAll(_, _)
RevertDeltasIgnoringAll(m, items) ==
    IF items = <<>> THEN {m}
    ELSE IF IsNone(Head(items).delta) THEN {Raise(m, "AttributeError")}
    ELSE Then(UnplugIgnoringAll(m, Head(items).delta.compute_id,
                                Head(items).delta.add_nics),
              LAMBDA r : RevertDeltasIgnoringAll(r, Tail(items)))

\* the loop of revert: the warning reads delta.amphora_id before the
\* test for a falsy delta, and that test leaves the whole revert
RECURSIVE RevertDeltas(_, _)
RevertDeltas(m, items) ==
    IF items = <<>> THEN {m}
    ELSE IF IsNone(Head(items).delta) THEN {Raise(m, "AttributeError")}
    ELSE Then(UnplugIgnoringNotFound(m, Head(items).delta.compute_id,
                                     Head(items).delta.add_nics),
              LAMBDA r : RevertDeltas(r, Tail(items)))

HandleNetworkDeltas_revert(p, result, items) ==
    IF IsFailure(result) THEN {Run(p)}
    ELSE RevertDeltas(Run(p), items)

HandleNetworkDeltasExecute ==
    /\ Ready("HandleNetworkDeltas")
    /\ \E r \in HandleNetworkDeltas_execute(plugged, args.deltas) :
         Executed(r, r.ret)

HandleNetworkDeltasRevert ==
    /\ Revertible("HandleNetworkDeltas")
    /\ \E r \in HandleNetworkDeltas_revert(plugged, outcome, args.deltas) :
         Reverted(r)

\* ------------------------------------------------------------------------
\* PlugVIP, PlugVIPAmpphora
\* ------------------------------------------------------------------------
\* what the driver reports for an amphora it plugged the VIP on
AmpData(a) == [id |-> a, vrrp_port_id |-> PortId(a, 50),
               ha_port_id |-> PortId(NumAmps + 1, 50)]

PlugVIP_execute(p, lb) ==
    Then(DriverCall(Run(p), "plug_vip", <<lb.id>>, Fallible),
         LAMBDA m : {[m EXCEPT !.ret = [i \in DOMAIN lb.amphorae |->
                                          AmpData(lb.amphorae[i])]]})

\* the amphora objects of the load balancer after the port ids of the
\* items of amps_data were copied onto those with the same id
RECURSIVE CopyPortIds(_, _, _)
CopyPortIds(amps, lb, amps_data) ==
    IF amps_data = <<>> THEN amps
    ELSE CopyPortIds(
            [a \in Amps |->
               IF a \in Range(lb.amphorae) /\ a = Head(amps_data).id
                 THEN [amps[a] EXCEPT
                         !.vrrp_port_id = Head(amps_data).vrrp_port_id,
                         !.ha_port_id = Head(amps_data).ha_port_id]
                 ELSE amps[a]],
            lb, Tail(amps_data))

\* the port ids the driver finds on the amphora objects of the load
\* balancer it is handed: the VRRP port ids, then the HA port ids
PortIdsOf(amps, lb) ==
    [i \in DOMAIN lb.amphorae |-> amps[lb.amphorae[i]].vrrp_port_id]
      \o [i \in DOMAIN lb.amphorae |-> amps[lb.amphorae[i]].ha_port_id]

\* a revert that unplugs before it copies the port ids
PlugVIP_revert_UnplugFirst(p, amps, result, lb) ==
    IF IsFailure(result) THEN {[Run(p) EXCEPT !.ret = <<amps>>]}
    ELSE Swallow(DriverCall([Run(p) EXCEPT !.ret =
                                <<CopyPortIds(amps, lb, result.value)>>],
                            "unplug_vip", <<lb.id>> \o PortIdsOf(amps, lb),
                            Fallible),
                 AllExceptions)

\* the runs of revert return the amphora objects in ret
PlugVIP_revert(p, amps, result, lb) ==
    IF IsFailure(result) THEN {[Run(p) EXCEPT !.ret = <<amps>>]}
    ELSE LET copied == CopyPortIds(amps, lb, result.value)
         IN  Swallow(DriverCall([Run(p) EXCEPT !.ret = <<copied>>],
                                "unplug_vip",
                                <<lb.id>> \o PortIdsOf(copied, lb),
                                Fallible),
                     AllExceptions)

PlugVIPAmpphora_execute(p, lb, amphora, subnet) ==
    Then(DriverCall(Run(p), "plug_aap_port", <<lb.id, amphora, subnet>>,
                    Fallible),
         LAMBDA m : {[m EXCEPT !.ret = <<AmpData(amphora)>>]})

\* unplug_aap_port is handed the amphora object, with its port ids
PlugVIPAmpphora_revert(p, amps, result, lb, amphora, subnet) ==
    IF IsFailure(result) THEN {[Run(p) EXCEPT !.ret = <<amps>>]}
    ELSE LET copied == [amps EXCEPT
                          ![amphora].vrrp_port_id =
                              result.value[1].vrrp_port_id,
                          ![amphora].ha_port_id =
                              result.value[1].ha_port_id]
         IN  Swallow(DriverCall([Run(p) EXCEPT !.ret = <<copied>>],
                                "unplug_aap_port",
                                <<amphora, subnet,
                                  copied[amphora].vrrp_port_id,
                                  copied[amphora].ha_port_id>>,
                                Fallible),
                     AllExceptions)

\* a revert that may have changed the amphora objects
RevertedWith(r) ==
    /\ phase' = "reverted"
    /\ plugged' = r.plugged
    /\ amphorae' = r.ret[1]
    /\ revCalls' = r.calls
    /\ raised' = r.exc
    /\ UNCHANGED <<persisted, task, args, outcome, execCalls, vanished>>

PlugVIPExecute ==
    /\ Ready("PlugVIP")
    /\ \E r \in PlugVIP_execute(plugged, args.loadbalancer) :
         Executed(r, r.ret)

PlugVIPRevert ==
    /\ Revertible("PlugVIP")
    /\ \E r \in PlugVIP_revert(plugged, amphorae, outcome,
                               args.loadbalancer) :
         RevertedWith(r)

PlugVIPAmpphoraExecute ==
    /\ Ready("PlugVIPAmpphora")
    /\ \E r \in PlugVIPAmpphora_execute(plugged, args.loadbalancer,
                                        args.amphora, args.subnet) :
         Executed(r, r.ret)

PlugVIPAmpphoraRevert ==
    /\ Revertible("PlugVIPAmpphora")
    /\ \E r \in PlugVIPAmpphora_revert(plugged, amphorae, outcome,
                                       args.loadbalancer, args.amphora,
                                       args.subnet) :
         RevertedWith(r)

\* ------------------------------------------------------------------------
\* AllocateVIP, AllocateVIPforFailover
\* ------------------------------------------------------------------------
AllocateVIP_execute(p, lb) ==
    Then(DriverCall(Run(p), "allocate_vip", <<lb.id>>, Fallible),
         LAMBDA m : {[m EXCEPT !.ret = <<lb.vip>>]})

AllocateVIP_revert(p, result, lb) ==
    IF IsFailure(result) THEN {Run(p)}
    ELSE Swallow(DriverCall(Run(p), "deallocate_vip",
                            <<result.value[1].port_id>>, Fallible),
                 AllExceptions)

\* a failover revert that deallocates as AllocateVIP.revert does
AllocateVIPforFailover_revert_Deallocating(p, result, lb) ==
    IF IsFailure(result) THEN {Run(p)}
    ELSE Swallow(DriverCall(Run(p), "deallocate_vip",
                            <<result.value[1].port_id>>, Fallible),
                 AllExceptions)

AllocateVIPforFailover_revert(p, result, lb) ==
    IF IsFailure(result) THEN {Run(p)}
    ELSE {Run(p)}

AllocateVIPExecute ==
    /\ Ready("AllocateVIP")
    /\ \E r \in AllocateVIP_execute(plugged, args.loadbalancer) :
         Executed(r, r.ret)

AllocateVIPRevert ==
    /\ Revertible("AllocateVIP")
    /\ \E r \in AllocateVIP_revert(plugged, outcome, args.loadbalancer) :
         Reverted(r)

AllocateVIPforFailoverExecute ==
    /\ Ready("AllocateVIPforFailover")
    /\ \E r \in AllocateVIP_execute(plugged, args.loadbalancer) :
         Executed(r, r.ret)

AllocateVIPforFailoverRevert ==
    /\ Revertible("AllocateVIPforFailover")
    /\ \E r \in AllocateVIPforFailover_revert(plugged, outcome,
                                              args.loadbalancer) :
         Reverted(r)

\* ------------------------------------------------------------------------
\* ApplyQos, ApplyQosAmphora
\* ------------------------------------------------------------------------
\* an update request is None or a dict, of which the steps look at the keys
\* and at the keys of its 'vip' entry; qos_policy_id is the value of
\* update_dict['vip']['qos_policy_id'] when that key is there
UpdateDict(keys, vip_keys, qos_policy_id) ==
    [keys |-> keys, vip_keys |-> vip_keys, qos_policy_id |-> qos_policy_id]
Falsy(update_dict) == IsNone(update_dict) \/ update_dict.keys = {}
LacksQos(update_dict) ==
    \/ "vip" \notin update_dict.keys
    \/ "qos_policy_id" \notin update_dict.vip_keys

\* ApplyQosAmphora._apply_qos_on_vrrp_port; when the call fails during a
\* revert the warning iterates over amp_data, which raises unless the
\* object given as amp_data happens to be iterable
apply_qos_on_vrrp_port(m, amps, amp_data, qos_policy_id, is_revert) ==
    IF IsNone(amp_data) THEN {Raise(m, "AttributeError")}
    ELSE UNION {IF r.exc = "none" \/ ~is_revert THEN {r}
                ELSE {Raise(r, "none"), Raise(r, "TypeError")} :
                  r \in DriverCall(m, "apply_qos_on_port",
                                   <<qos_policy_id,
                                     amps[amp_data.id].vrrp_port_id>>,
                                   Fallible)}

\* the loop of ApplyQos._apply_qos_on_vrrp_ports: it does not pass
\* is_revert on
RECURSIVE ApplyOnEach(_, _, _, _)
ApplyOnEach(m, amps, amps_data, qos_policy_id) ==
    IF amps_data = <<>> THEN {m}
    ELSE Then(apply_qos_on_vrrp_port(m, amps, [id |-> Head(amps_data)],
                                     qos_policy_id, FALSE),
              LAMBDA r : ApplyOnEach(r, amps, Tail(amps_data),
                                     qos_policy_id))

\* the loop over all amphorae of the load balancer, whatever the caller
\* supplied
apply_qos_on_all_ports(m, amps, lb, amps_data, qos_policy_id, is_revert) ==
    ApplyOnEach(m, amps, lb.amphorae, qos_policy_id)

apply_qos_on_vrrp_ports(m, amps, lb, amps_data, qos_policy_id, is_revert) ==
    ApplyOnEach(m, amps,
                IF IsNone(amps_data) \/ amps_data.list = <<>>
                  THEN lb.amphorae ELSE amps_data.list,
                qos_policy_id)

\* an execute that applies the policy of the Vip whatever it is
ApplyQos_execute_Unconditional(p, amps, lb, amps_data, update_dict) ==
    apply_qos_on_vrrp_ports(Run(p), amps, lb, amps_data,
                            lb.vip.qos_policy_id, FALSE)

ApplyQos_execute(p, amps, lb, amps_data, update_dict) ==
    LET qos_policy_id == lb.vip.qos_policy_id
    IN  IF qos_policy_id = NoneId
           /\ (Falsy(update_dict) \/ LacksQos(update_dict))
          THEN {Run(p)}
          ELSE apply_qos_on_vrrp_ports(Run(p), amps, lb, amps_data,
                                       qos_policy_id, FALSE)

\* the repository read of the reverts, which may fail
get_current_loadbalancer_from_db(m, lb_id) ==
    DriverCall(m, "get_current_loadbalancer_from_db", <<lb_id>>, Fallible)

\* a revert that applies the stored policy without comparing
ApplyQos_revert_Always(p, amps, db_qos, result, lb, amps_data, update_dict) ==
    Then(get_current_loadbalancer_from_db(Run(p), lb.id),
         LAMBDA m : apply_qos_on_vrrp_ports(m, amps, lb, amps_data, db_qos,
                                            TRUE))

ApplyQos_revert(p, amps, db_qos, result, lb, amps_data, update_dict) ==
    LET request_qos_id == lb.vip.qos_policy_id
        orig_qos_id == db_qos
    IN  Then(get_current_loadbalancer_from_db(Run(p), lb.id),
             LAMBDA m :
                IF request_qos_id # orig_qos_id
                  THEN apply_qos_on_vrrp_ports(m, amps, lb, amps_data,
                                               orig_qos_id, TRUE)
                  ELSE {m})

ApplyQosAmphora_execute(p, amps, lb, amp_data, update_dict) ==
    LET qos_policy_id == lb.vip.qos_policy_id
    IN  IF qos_policy_id = NoneId
           /\ (~Falsy(update_dict) /\ LacksQos(update_dict))
          THEN {Run(p)}
          ELSE apply_qos_on_vrrp_port(Run(p), amps, amp_data,
                                      qos_policy_id, FALSE)

\* a revert without its try block, applying as the forward pass does
ApplyQosAmphora_revert_Raising(p, amps, db_qos, result, lb, amp_data, update_dict) ==
    Then(get_current_loadbalancer_from_db(Run(p), lb.id),
         LAMBDA m : IF lb.vip.qos_policy_id # db_qos
                      THEN apply_qos_on_vrrp_port(m, amps, amp_data, db_qos,
                                                  FALSE)
                      ELSE {m})

\* the handler of revert logs orig_qos_id and amp_data.vrrp_port_id: the
\* first is unbound when the repository read failed, the second cannot be
\* read off a missing amp_data
ApplyQosAmphora_revert(p, amps, db_qos, result, lb, amp_data, update_dict) ==
    LET request_qos_id == lb.vip.qos_policy_id
        orig_qos_id == db_qos
        read == get_current_loadbalancer_from_db(Run(p), lb.id)
        body(m) == IF request_qos_id # orig_qos_id
                     THEN apply_qos_on_vrrp_port(m, amps, amp_data,
                                                 orig_qos_id, TRUE)
                     ELSE {m}
    IN  {Raise(r, "UnboundLocalError") : r \in {m \in read : m.exc # "none"}}
        \cup
        {IF r.exc = "none" THEN r
         ELSE IF IsNone(amp_data) THEN Raise(r, "AttributeError")
         ELSE Raise(r, "none") :
            r \in UNION {body(m) : m \in {m \in read : m.exc = "none"}}}

ApplyQosExecute ==
    /\ Ready("ApplyQos")
    /\ \E r \in ApplyQos_execute(plugged, amphorae, args.loadbalancer,
                                 args.amps_data, args.update_dict) :
         Executed(r, None)

ApplyQosRevert ==
    /\ Revertible("ApplyQos")
    /\ \E r \in ApplyQos_revert(plugged, amphorae, persisted, outcome,
                                args.loadbalancer, args.amps_data,
                                args.update_dict) :
         Reverted(r)

ApplyQosAmphoraExecute ==
    /\ Ready("ApplyQosAmphora")
    /\ \E r \in ApplyQosAmphora_execute(plugged, amphorae, args.loadbalancer,
                                        args.amp_data, args.update_dict) :
         Executed(r, None)

ApplyQosAmphoraRevert ==
    /\ Revertible("ApplyQosAmphora")
    /\ \E r \in ApplyQosAmphora_revert(plugged, amphorae, persisted, outcome,
                                       args.loadbalancer, args.amp_data,
                                       args.update_dict) :
         Reverted(r)

\* ------------------------------------------------------------------------
\* DeletePort, CreateVIPBasePort, AdminDownPort
\* ------------------------------------------------------------------------
\* Task.update_progress, noted among the calls of the run
update_progress(m, attempt, max_attempt) ==
    [m EXCEPT !.calls = Append(m.calls,
                               Call("update_progress",
                                    <<attempt, max_attempt>>, "ok"))]

\* one attempt and no retry
DeleteOnce(m, port_id, passive_failure, k) ==
    DriverCall(update_progress(m, k, max_retries), "delete_port",
               <<port_id>>, Fallible)

\* the attempts of DeletePort.execute from attempt number k on, under the
\* retry policy: any exception is retried until max_retries attempts
RECURSIVE DeleteAttempts(_, _, _, _)
DeleteAttempts(m, port_id, passive_failure, k) ==
    UNION {IF r.exc = "none" THEN {r}
           ELSE IF k # max_retries
             THEN DeleteAttempts(Raise(r, "none"), port_id,
                                 passive_failure, k + 1)
           ELSE IF passive_failure
             THEN Swallow(DriverCall(Raise(r, "none"), "admin_down_port",
                                     <<port_id>>, Fallible),
                          AllExceptions)
           ELSE {r} :
             r \in DriverCall(update_progress(m, k, max_retries),
                              "delete_port", <<port_id>>, Fallible)}

\* an execute that treats every final failure as fatal
DeletePort_execute_Fatal(p, port_id, passive_failure) ==
    IF port_id = NoneId THEN {Run(p)}
    ELSE DeleteAttempts(Run(p), port_id, FALSE, 1)

\* an execute that tries to delete whatever port id it is given
DeletePort_execute_Eager(p, port_id, passive_failure) ==
    DeleteAttempts(Run(p), port_id, passive_failure, 1)

DeletePort_execute(p, port_id, passive_failure) ==
    IF port_id = NoneId THEN {Run(p)}
    ELSE DeleteAttempts(Run(p), port_id, passive_failure, 1)

DeletePortExecute ==
    /\ Ready("DeletePort")
    /\ \E r \in DeletePort_execute(plugged, args.port_id,
                                   args.passive_failure) :
         Executed(r, None)

\* the name of an amphora's base port: the prefix, then the amphora id
AMP_BASE_PORT_PREFIX == 200
PortName(amphora_id) == AMP_BASE_PORT_PREFIX + amphora_id

\* security_group_ids: [vip_sg_id], or the empty list for a falsy id
SecurityGroupIds(vip_sg_id) == IF vip_sg_id = NoneId THEN <<>> ELSE <<vip_sg_id>>

\* create_port(network_id, name, the subnet of the one fixed IP, the one
\* secondary IP, qos_policy_id, then the security group ids)
CreatePortArgs(vip, vip_sg_id, amphora_id) ==
    <<vip.network_id, PortName(amphora_id), vip.subnet_id, vip.ip_address,
      vip.qos_policy_id>> \o SecurityGroupIds(vip_sg_id)

\* one attempt only: the first error is raised
RECURSIVE CreateOnce(_, _, _, _, _)
CreateOnce(m, vip, vip_sg_id, amphora_id, k) ==
    {IF r.exc = "none"
       THEN [r EXCEPT !.ret = <<Port(PortId(amphora_id, vip.network_id))>>]
     ELSE r :
       r \in DriverCall(m, "create_port",
                        CreatePortArgs(vip, vip_sg_id, amphora_id),
                        Fallible)}

\* the attempts of CreateVIPBasePort.execute from attempt number k on
RECURSIVE CreateAttempts(_, _, _, _, _)
CreateAttempts(m, vip, vip_sg_id, amphora_id, k) ==
    UNION {IF r.exc = "none"
             THEN {[r EXCEPT !.ret = <<Port(PortId(amphora_id,
                                                   vip.network_id))>>]}
           ELSE IF k # max_retries
             THEN CreateAttempts(Raise(r, "none"), vip, vip_sg_id,
                                 amphora_id, k + 1)
           ELSE {r} :
             r \in DriverCall(m, "create_port",
                              CreatePortArgs(vip, vip_sg_id, amphora_id),
                              Fallible)}

CreateVIPBasePort_execute(p, vip, vip_sg_id, amphora_id) ==
    CreateAttempts(Run(p), vip, vip_sg_id, amphora_id, 1)

\* revert loops over result, which is the one port execute returned and
\* not a collection: the loop raises TypeError, which the handler logs
CreateVIPBasePort_revert(p, result, vip, vip_sg_id, amphora_id) ==
    IF IsFailure(result) THEN {Run(p)}
    ELSE Swallow({Raise(Run(p), "TypeError")}, AllExceptions)

CreateVIPBasePortExecute ==
    /\ Ready("CreateVIPBasePort")
    /\ \E r \in CreateVIPBasePort_execute(plugged, args.vip, args.vip_sg_id,
                                          args.amphora_id) :
         Executed(r, r.ret)

CreateVIPBasePortRevert ==
    /\ Revertible("CreateVIPBasePort")
    /\ \E r \in CreateVIPBasePort_revert(plugged, outcome, args.vip,
                                         args.vip_sg_id, args.amphora_id) :
         Reverted(r)

DOWN == "DOWN"
PortStatuses == {DOWN, "ACTIVE"}

\* polls that go on after the port was reported DOWN
RECURSIVE PollWithoutStopping(_, _, _)
PollWithoutStopping(m, port_id, i) ==
    IF i = max_retries THEN {m}
    ELSE UNION {IF r.exc # "none" THEN {r}
                ELSE PollWithoutStopping(r, port_id, i + 1) :
                  r \in DriverCall(m, "get_port", <<port_id>>,
                                   PortStatuses \cup {"Exception"})}

\* the polls of AdminDownPort.execute, i of max_retries done
RECURSIVE PollDown(_, _, _)
PollDown(m, port_id, i) ==
    IF i = max_retries THEN {m}
    ELSE UNION {IF r.exc # "none" THEN {r}
                ELSE IF r.calls[Len(r.calls)].out = DOWN THEN {r}
                ELSE PollDown(r, port_id, i + 1) :
                  r \in DriverCall(m, "get_port", <<port_id>>,
                                   PortStatuses \cup {"Exception"})}

\* an execute that polls the port although it was not found
AdminDownPort_execute_PollingMissing(p, port_id) ==
    UNION {IF r.exc = "PortNotFound" THEN PollDown(Raise(r, "none"), port_id, 0)
           ELSE IF r.exc # "none" THEN {r}
           ELSE PollDown(r, port_id, 0) :
             r \in DriverCall(Run(p), "set_port_admin_state_up",
                              <<port_id, 0>>,
                              {"ok", "PortNotFound", "Exception"})}

AdminDownPort_execute(p, port_id) ==
    UNION {IF r.exc = "PortNotFound" THEN {Raise(r, "none")}
           ELSE IF r.exc # "none" THEN {r}
           ELSE PollDown(r, port_id, 0) :
             r \in DriverCall(Run(p), "set_port_admin_state_up",
                              <<port_id, 0>>,
                              {"ok", "PortNotFound", "Exception"})}

\* a revert that brings the port up whatever the outcome of execute was
AdminDownPort_revert_Always(p, result, port_id) ==
    Swallow(DriverCall(Run(p), "set_port_admin_state_up", <<port_id, 1>>,
                       {"ok", "PortNotFound", "Exception"}),
            AllExceptions)

\* a revert that lets the error of set_port_admin_state_up escape
AdminDownPort_revert_Raising(p, result, port_id) ==
    IF IsFailure(result) THEN {Run(p)}
    ELSE DriverCall(Run(p), "set_port_admin_state_up", <<port_id, 1>>,
                    {"ok", "PortNotFound", "Exception"})

AdminDownPort_revert(p, result, port_id) ==
    IF IsFailure(result) THEN {Run(p)}
    ELSE Swallow(DriverCall(Run(p), "set_port_admin_state_up",
                            <<port_id, 1>>,
                            {"ok", "PortNotFound", "Exception"}),
                 AllExceptions)

AdminDownPortExecute ==
    /\ Ready("AdminDownPort")
    /\ \E r \in AdminDownPort_execute(plugged, args.port_id) :
         Executed(r, None)

AdminDownPortRevert ==
    /\ Revertible("AdminDownPort")
    /\ \E r \in AdminDownPort_revert(plugged, outcome, args.port_id) :
         Reverted(r)

\* ------------------------------------------------------------------------
\* GetVIPSecurityGroupID
\* ------------------------------------------------------------------------
\* the id of the security group named after the load balancer
SecurityGroupIdOf(loadbalancer_id) == 6 + loadbalancer_id

\* get_security_group finds the group, returns nothing, or raises
SecurityGroupAnswers == {"ok", "nothing", "SecurityGroupNotFound", "Exception"}

\* an execute that returns no id whenever the group is not found
GetVIPSecurityGroupID_execute_Lenient(p, loadbalancer_id, sec_grp_enabled) ==
    {IF r.exc = "SecurityGroupNotFound"
       THEN [Raise(r, "none") EXCEPT !.ret = <<NoneId>>]
     ELSE IF r.exc # "none" THEN r
     ELSE [r EXCEPT !.ret = <<IF r.calls[Len(r.calls)].out = "ok"
                                THEN SecurityGroupIdOf(loadbalancer_id)
                                ELSE NoneId>>] :
        r \in DriverCall(Run(p), "get_security_group", <<loadbalancer_id>>,
                         SecurityGroupAnswers)}

\* sec_grp_enabled is the driver's property of that name
GetVIPSecurityGroupID_execute(p, loadbalancer_id, sec_grp_enabled) ==
    {IF r.exc = "SecurityGroupNotFound"
       THEN (IF sec_grp_enabled THEN r
             ELSE [Raise(r, "none") EXCEPT !.ret = <<NoneId>>])
     ELSE IF r.exc # "none" THEN r
     ELSE [r EXCEPT !.ret = <<IF r.calls[Len(r.calls)].out = "ok"
                                THEN SecurityGroupIdOf(loadbalancer_id)
                                ELSE NoneId>>] :
        r \in DriverCall(Run(p), "get_security_group", <<loadbalancer_id>>,
                         SecurityGroupAnswers)}

GetVIPSecurityGroupIDExecute ==
    /\ Ready("GetVIPSecurityGroupID")
    /\ \E r \in GetVIPSecurityGroupID_execute(plugged, args.loadbalancer_id,
                                               args.sec_grp_enabled) :
         Executed(r, r.ret)

\* ------------------------------------------------------------------------
\* The driver's environment
\* ------------------------------------------------------------------------
DeltaTasks == {"PlugNetworks", "UnPlugNetworks", "HandleNetworkDelta",
               "HandleNetworkDeltas"}

\* a NIC disappears from an instance between the computation of the delta
\* and its application
\* the networks of the NICs the step's input names for compute c
NamedNets(c, field) ==
    IF task = "HandleNetworkDeltas"
      THEN UNION {{it.delta[field][i].network_id :
                      i \in DOMAIN it.delta[field]} :
                    it \in {it \in Range(args.deltas) :
                               it.amp_id = c /\ ~IsNone(it.delta)}}
      ELSE IF args.amphora = c /\ ~IsNone(args.delta)
        THEN {args.delta[field][i].network_id :
                 i \in DOMAIN args.delta[field]}
        ELSE {}

\* once in a workflow a NIC the step is about to unplug disappears: one
\* it is to delete before execute, one it added before revert
NicVanishes ==
    /\ ~vanished
    /\ task \in DeltaTasks
    /\ phase \in {"ready", "executed"}
    /\ \E c \in Amps, n \in NetIds :
         /\ plugged[c][n] > 0
         /\ n \in NamedNets(c, IF phase = "ready" THEN "delete_nics"
                                                  ELSE "add_nics")
         /\ plugged' = [plugged EXCEPT ![c][n] = 0]
    /\ vanished' = TRUE
    /\ UNCHANGED <<amphorae, persisted, task, phase, args, outcome,
                   execCalls, revCalls, raised>>

\* ------------------------------------------------------------------------
\* Initial states: a workflow instance with its step and its inputs
\* ------------------------------------------------------------------------
NoNics == [c \in Amps |-> [n \in NetIds |-> 0]]
\* at most one NIC per network, none without a network
NicStates == {p \in [Amps -> [NetIds -> {0, 1}]] :
                 \A c \in Amps : p[c][NoneId] = 0}
\* what get_plugged_networks can report of an instance: the backend does
\* not keep the NICs of a network to one
MaxNics == 2
ReportedNicStates(a) ==
    {[c \in Amps |-> IF c = a THEN nics ELSE NoNics[c]] :
        nics \in {f \in [NetIds -> 0..MaxNics] : f[NoneId] = 0}}
OnlyOn(p, a) == \A c \in Amps \ {a} : p[c] = NoNics[c]

\* the VRRP ports of the amphorae are on one network, v
AmphoraeOn(v) == [a \in Amps |-> [vrrp_port_id |-> PortId(a, v),
                                  ha_port_id |-> NoneId]]

\* the amphorae of a load balancer are replicas: same NICs on each
Replicas(p) == \A c \in Amps : \A n \in NetIds : p[c][n] = p[1][n]

Start(t, in) ==
    /\ vanished = FALSE
    /\ task = t
    /\ phase = "ready"
    /\ args = in
    /\ outcome = Result(None)
    /\ execCalls = <<>>
    /\ revCalls = <<>>
    /\ raised = "none"

\* the sets of desired networks the reconciler can arrive at
DesiredSets ==
    {{v} \cup ManagementNets(az) \cup MemberNetworks(pools) :
        v \in Nets, az \in AZs, pools \in Pools}

\* the deltas the reconciler can provide for amphora a
ProvidedDeltas(p, a) ==
    UNION {DeltasFor(a, D, PluggedNics(p, a)) : D \in DesiredSets}

\* the mappings the reconciler can provide for the load balancer, from
\* amphora a on
RECURSIVE DeltaMapsFrom(_, _, _, _)
DeltaMapsFrom(p, D, status, a) ==
    IF a > NumAmps THEN {<<>>}
    ELSE IF status[a] # AMPHORA_ALLOCATED
           THEN DeltaMapsFrom(p, D, status, a + 1)
           ELSE {<<[amp_id |-> a, delta |-> d]>> \o rest :
                    d \in DeltasFor(a, D, PluggedNics(p, a)),
                    rest \in DeltaMapsFrom(p, D, status, a + 1)}

NetworkIds(nics) == [i \in DOMAIN nics |-> nics[i].network_id]

\* the deltas list the networks in the same order
Aligned(items) ==
    \A i, j \in DOMAIN items :
        /\ NetworkIds(items[i].delta.add_nics)
              = NetworkIds(items[j].delta.add_nics)
        /\ NetworkIds(items[i].delta.delete_nics)
              = NetworkIds(items[j].delta.delete_nics)

ProvidedDeltaMaps(p) ==
    UNION {{items \in DeltaMapsFrom(p, D, status, 1) : Aligned(items)} :
              D \in DesiredSets, status \in [Amps -> AmphoraStatuses]}

\* a mapping one of whose values is None
WithNone(items) ==
    {[items EXCEPT ![i].delta = None] : i \in DOMAIN items}

\* the amphorae that have NICs have the same ones
FreshOrAlike(p) ==
    \A c, d \in Amps : p[c] = p[d] \/ p[c] = NoNics[c] \/ p[d] = NoNics[d]

InitCalc ==
    /\ persisted = NoneId
    /\ \/ \E a \in Amps :
            /\ \E v \in Nets : amphorae = AmphoraeOn(v)
            /\ plugged \in ReportedNicStates(a)
            /\ \E pools \in Pools, az \in AZs,
                  vp \in {None, Port(amphorae[a].vrrp_port_id)} :
                 Start("CalculateAmphoraDelta",
                       [loadbalancer |-> [pools |-> pools], amphora |-> a,
                        availability_zone |-> az, vrrp_port |-> vp])
       \/ /\ amphorae = AmphoraeOn(1)
          /\ plugged \in {p \in NicStates : FreshOrAlike(p)}
          /\ \E pools \in {ps \in Pools : \A i \in DOMAIN ps :
                                                Distinct(ps[i])},
                az \in {z \in AZs : NoneId \notin ManagementNets(z)},
                status \in [Amps -> AmphoraStatuses] :
               Start("CalculateDelta",
                       [loadbalancer |-> [pools |-> pools,
                                          amphorae |-> status],
                        availability_zone |-> az])

NextCalc ==
    \/ CalculateAmphoraDeltaExecute
    \/ CalculateDeltaExecute

SpecCalc == InitCalc /\ [][NextCalc]_vars

\* ------------------------------------------------------------------------
\* Properties of the reconciler (SpecCalc)
\* ------------------------------------------------------------------------
NetworkSet(nics) == {nics[i].network_id : i \in DOMAIN nics}
PluggedNetworks(p, c) == {n \in NetIds : p[c][n] > 0}
Returned(t) == task = t /\ phase = "executed" /\ raised = "none"

\* C1: the delta CalculateAmphoraDelta.execute returns has, with D the
\* desired networks and A the networks of the NICs get_plugged_networks
\* returned, networks(add_nics) = D \ A and networks(delete_nics) = A \ D,
\* and the two lists share no network id
C1_DeltaIsSetDifference ==
    Returned("CalculateAmphoraDelta") =>
        LET d == outcome.value[1]
            D == DesiredNetworkIds(amphorae, args.loadbalancer.pools,
                                   args.amphora, args.availability_zone,
                                   args.vrrp_port)
            A == PluggedNetworks(plugged, args.amphora)
        IN  /\ NetworkSet(d.add_nics) = D \ A
            /\ NetworkSet(d.delete_nics) = A \ D
            /\ NetworkSet(d.add_nics) \cap NetworkSet(d.delete_nics) = {}

\* a returned delta that adds and deletes, with a desired network plugged
C1_Witness ==
    /\ Returned("CalculateAmphoraDelta")
    /\ outcome.value[1].add_nics # <<>>
    /\ outcome.value[1].delete_nics # <<>>
    /\ \E n \in PluggedNetworks(plugged, args.amphora) :
          n \notin NetworkSet(outcome.value[1].delete_nics)

InitDelta ==
    /\ amphorae = AmphoraeOn(1)
    /\ persisted = NoneId
    /\ \/ \E a \in Amps :
            /\ plugged \in {p \in NicStates : OnlyOn(p, a)}
            /\ \E d \in {None} \cup ProvidedDeltas(plugged, a),
                  t \in {"PlugNetworks", "UnPlugNetworks",
                         "HandleNetworkDelta"} :
                 Start(t, [amphora |-> a, delta |-> d])
       \/ /\ plugged \in {p \in NicStates : Replicas(p)}
          /\ \E ds \in ProvidedDeltaMaps(plugged) :
               \E in \in {ds} \cup WithNone(ds) :
                 Start("HandleNetworkDeltas", [deltas |-> in])

\* the load balancer of the VIP and QoS steps
QosIds == {31, 32}
Vip(qos_policy_id) == [port_id |-> PortId(NumAmps + 1, 1),
                       network_id |-> 1,
                       subnet_id |-> SubnetOf(1),
                       ip_address |-> 5,
                       qos_policy_id |-> qos_policy_id]
LoadBalancer(qos_policy_id) ==
    [id |-> 1, vip |-> Vip(qos_policy_id),
     amphorae |-> [i \in 1..NumAmps |-> i]]
UpdateDicts ==
    {None, UpdateDict({}, {}, NoneId), UpdateDict({"name"}, {}, NoneId),
     UpdateDict({"vip"}, {}, NoneId)}
      \cup {UpdateDict({"vip"}, {"qos_policy_id"}, q) :
               q \in {NoneId} \cup QosIds}
AmpsDatas == {None, [list |-> <<>>]}
                 \cup {[list |-> <<a>>] : a \in Amps}

InitVip ==
    /\ amphorae = AmphoraeOn(1)
    /\ persisted = NoneId
    /\ plugged = NoNics
    /\ \E q \in {NoneId} \cup QosIds :
         \/ \E t \in {"PlugVIP", "AllocateVIP", "AllocateVIPforFailover"} :
              Start(t, [loadbalancer |-> LoadBalancer(q)])
         \/ \E a \in Amps :
              Start("PlugVIPAmpphora",
                    [loadbalancer |-> LoadBalancer(q), amphora |-> a,
                     subnet |-> SubnetOf(1)])

InitQos ==
    /\ amphorae = AmphoraeOn(1)
    /\ persisted \in {NoneId} \cup QosIds
    /\ plugged = NoNics
    /\ \E q \in {NoneId} \cup QosIds, u \in UpdateDicts :
         \/ \E ad \in AmpsDatas :
              Start("ApplyQos",
                    [loadbalancer |-> LoadBalancer(q), amps_data |-> ad,
                     update_dict |-> u])
         \/ \E ad \in {None} \cup {[id |-> a] : a \in Amps} :
              Start("ApplyQosAmphora",
                    [loadbalancer |-> LoadBalancer(q), amp_data |-> ad,
                     update_dict |-> u])

SgIds == {NoneId, 7}

InitPort ==
    /\ amphorae = AmphoraeOn(1)
    /\ persisted = NoneId
    /\ plugged = NoNics
    /\ \/ \E port_id \in {NoneId} \cup {PortId(a, 1) : a \in Amps},
             passive_failure \in BOOLEAN :
            Start("DeletePort", [port_id |-> port_id,
                                 passive_failure |-> passive_failure])
       \/ \E q \in {NoneId} \cup QosIds, sg \in SgIds, a \in Amps :
            Start("CreateVIPBasePort",
                  [vip |-> Vip(q), vip_sg_id |-> sg, amphora_id |-> a])
       \/ \E a \in Amps :
            Start("AdminDownPort", [port_id |-> PortId(a, 1)])
       \/ \E sec_grp_enabled \in BOOLEAN :
            Start("GetVIPSecurityGroupID",
                  [loadbalancer_id |-> LoadBalancer(NoneId).id,
                   sec_grp_enabled |-> sec_grp_enabled])

Init == InitDelta \/ InitVip \/ InitQos \/ InitPort

Next ==
    \/ NicVanishes
    \/ PlugNetworksExecute
    \/ PlugNetworksRevert
    \/ UnPlugNetworksExecute
    \/ HandleNetworkDeltaExecute
    \/ HandleNetworkDeltaRevert
    \/ HandleNetworkDeltasExecute
    \/ HandleNetworkDeltasRevert
    \/ PlugVIPExecute
    \/ PlugVIPRevert
    \/ PlugVIPAmpphoraExecute
    \/ PlugVIPAmpphoraRevert
    \/ AllocateVIPExecute
    \/ AllocateVIPRevert
    \/ AllocateVIPforFailoverExecute
    \/ AllocateVIPforFailoverRevert
    \/ ApplyQosExecute
    \/ ApplyQosRevert
    \/ ApplyQosAmphoraExecute
    \/ ApplyQosAmphoraRevert
    \/ DeletePortExecute
    \/ CreateVIPBasePortExecute
    \/ CreateVIPBasePortRevert
    \/ AdminDownPortExecute
    \/ AdminDownPortRevert
    \/ GetVIPSecurityGroupIDExecute

Spec == Init /\ [][Next]_vars

\* ------------------------------------------------------------------------
\* One workflow instance that computes a delta and applies it
\* ------------------------------------------------------------------------
\* the step the engine runs after step t: the delta is computed, applied by
\* HandleNetworkDelta or by PlugNetworks and then UnPlugNetworks, and
\* computed once more from the same inputs
NextTasks(t, done) ==
    IF t = "CalculateAmphoraDelta"
      THEN (IF done = <<>> THEN {"HandleNetworkDelta", "PlugNetworks"}
            ELSE {})
    ELSE IF t = "PlugNetworks" THEN {"UnPlugNetworks"}
    ELSE {"CalculateAmphoraDelta"}

\* the engine stores what the step provides and starts the next step
EngineRunsNext ==
    /\ phase = "executed"
    /\ ~IsFailure(outcome)
    /\ ~args.rolling
    /\ \E t \in NextTasks(task, args.done) :
         /\ task' = t
         /\ args' = [args EXCEPT
                       !.done = Append(@, [task |-> task,
                                           calls |-> execCalls,
                                           outcome |-> outcome]),
                       !.delta = IF task = "CalculateAmphoraDelta"
                                   THEN outcome.value[1] ELSE @]
    /\ phase' = "ready"
    /\ outcome' = Result(None)
    /\ execCalls' = <<>>
    /\ revCalls' = <<>>
    /\ raised' = "none"
    /\ UNCHANGED <<plugged, amphorae, persisted, vanished>>

\* the workflow fails: the engine goes back through the steps that
\* completed, last first, and gives each its own result to revert
EngineRollsBack ==
    /\ phase \in {"executed", "reverted"}
    /\ args.done # <<>>
    /\ task' = args.done[Len(args.done)].task
    /\ phase' = "executed"
    /\ outcome' = args.done[Len(args.done)].outcome
    /\ execCalls' = args.done[Len(args.done)].calls
    /\ revCalls' = <<>>
    /\ raised' = "none"
    /\ args' = [args EXCEPT !.done = SubSeq(@, 1, Len(@) - 1),
                            !.rolling = TRUE]
    /\ UNCHANGED <<plugged, amphorae, persisted, vanished>>

InitFlow ==
    /\ persisted = NoneId
    /\ \E v \in Nets : amphorae = AmphoraeOn(v)
    /\ plugged \in {p \in NicStates : OnlyOn(p, 1)}
    /\ \E pools \in Pools, az \in AZs :
         Start("CalculateAmphoraDelta",
               [loadbalancer |-> [pools |-> pools], amphora |-> 1,
                availability_zone |-> az, vrrp_port |-> None,
                delta |-> None, done |-> <<>>, rolling |-> FALSE])

NextFlow ==
    \/ CalculateAmphoraDeltaExecute
    \/ EngineRunsNext
    \/ HandleNetworkDeltaExecute
    \/ HandleNetworkDeltaRevert
    \/ PlugNetworksExecute
    \/ PlugNetworksRevert
    \/ UnPlugNetworksExecute
    \/ EngineRollsBack
    \/ NicVanishes

SpecFlow == InitFlow /\ [][NextFlow]_vars

\* ------------------------------------------------------------------------
\* Properties of the steps (Spec)
\* ------------------------------------------------------------------------
RevertRan(t) == task = t /\ phase = "reverted"
ExecuteRan(t) == task = t /\ phase \in {"executed", "reverted"}
Last(calls) == calls[Len(calls)]
OfOp(calls, op) == SelectSeq(calls, LAMBDA c : c.op = op)
CallArgs(calls) == [i \in DOMAIN calls |-> calls[i].args]
Swallowed == {"ok", "NetworkNotFound"}

\* C2: no revert of a step raises: whatever a backend or persistence call
\* inside revert throws is swallowed, and revert returns normally
C2_RevertNeverRaises == phase = "reverted" => raised = "none"

\* ApplyQos.revert lets the error of apply_qos_on_port escape
C2_Witness ==
    /\ RevertRan("ApplyQos")
    /\ revCalls # <<>>
    /\ Last(revCalls).op = "apply_qos_on_port"
    /\ raised = "Exception"

\* C3: when the execute of HandleNetworkDelta or HandleNetworkDeltas
\* failed after plugging some add_nics, then after its revert, all of
\* whose unplug calls succeeded, no NIC that execute plugged is attached
C3_FailedPlugsAreUndone ==
    (/\ task \in {"HandleNetworkDelta", "HandleNetworkDeltas"}
     /\ phase = "reverted"
     /\ IsFailure(outcome)
     /\ \A i \in DOMAIN revCalls :
           revCalls[i].op = "unplug_network" => revCalls[i].out = "ok")
    => \A i \in DOMAIN execCalls :
          (execCalls[i].op = "plug_network" /\ execCalls[i].out = "ok")
          => plugged[execCalls[i].args[1]][execCalls[i].args[2]] = 0

\* execute plugged a NIC and then failed; revert left the NIC attached
C3_Witness ==
    /\ RevertRan("HandleNetworkDelta")
    /\ IsFailure(outcome)
    /\ revCalls = <<>>
    /\ \E i \in DOMAIN execCalls :
          /\ execCalls[i].op = "plug_network"
          /\ execCalls[i].out = "ok"
          /\ plugged[execCalls[i].args[1]][execCalls[i].args[2]] > 0

\* the unplug_network calls a revert makes for the add_nics of delta d on
\* compute c are calls for a prefix of add_nics, one per entry, in order
UnplugsPrefix(calls, c, d) ==
    /\ Len(calls) <= Len(d.add_nics)
    /\ \A i \in DOMAIN calls :
          /\ calls[i].op = "unplug_network"
          /\ calls[i].args = <<c, d.add_nics[i].network_id>>

OneEntry(d) == ~IsNone(d) /\ Len(d.add_nics) = 1

\* C5: in PlugNetworks.revert and HandleNetworkDeltas.revert a
\* NetworkNotFound of unplug_network is swallowed and any other exception
\* of unplug_network leaves revert, which for a one-entry add_nics has
\* made exactly one unplug_network call
C5_OnlyNotFoundSwallowed ==
    (\/ RevertRan("PlugNetworks")
     \/ RevertRan("HandleNetworkDeltas") /\ ~IsFailure(outcome))
    => /\ raised # "NetworkNotFound"
       /\ \A i \in DOMAIN revCalls :
             /\ revCalls[i].op = "unplug_network"
             /\ revCalls[i].out \notin Swallowed
                  => i = Len(revCalls) /\ raised = revCalls[i].out
       /\ (revCalls # <<>> /\ Last(revCalls).out \in Swallowed)
             => raised \in {"none", "AttributeError"}
       /\ (task = "PlugNetworks" /\ OneEntry(args.delta))
             => Len(revCalls) = 1
       /\ (task = "HandleNetworkDeltas" /\ Len(args.deltas) = 1
             /\ OneEntry(args.deltas[1].delta))
             => Len(revCalls) = 1

\* HandleNetworkDeltas.revert of one delta with one add_nics entry: the
\* one unplug_network call failed and its error left revert
C5_Witness ==
    /\ RevertRan("HandleNetworkDeltas")
    /\ ~IsFailure(outcome)
    /\ Len(args.deltas) = 1
    /\ OneEntry(args.deltas[1].delta)
    /\ Len(revCalls) = 1
    /\ revCalls[1].out = "Exception"
    /\ raised = "Exception"

FailureMarkerSteps ==
    {"HandleNetworkDelta", "HandleNetworkDeltas", "PlugVIP",
     "PlugVIPAmpphora", "AllocateVIP", "AllocateVIPforFailover",
     "CreateVIPBasePort", "AdminDownPort"}

\* C7: given a failure marker as the outcome of the step's own execute,
\* the revert of HandleNetworkDelta, HandleNetworkDeltas, PlugVIP,
\* PlugVIPAmpphora, AllocateVIP, AllocateVIPforFailover, CreateVIPBasePort
\* and AdminDownPort makes no backend call
C7_FailureMarkerNoCall ==
    (phase = "reverted" /\ task \in FailureMarkerSteps /\ IsFailure(outcome))
    => revCalls = <<>> /\ raised = "none"

\* AdminDownPort.execute raised and its revert ran
C7_Witness ==
    /\ RevertRan("AdminDownPort")
    /\ IsFailure(outcome)
    /\ execCalls # <<>>

\* the unplug_network calls the delete_nics of the deltas ask for
RECURSIVE DeleteCalls(_)
DeleteCalls(items) ==
    IF items = <<>> THEN <<>>
    ELSE [i \in DOMAIN Head(items).delta.delete_nics |->
            <<Head(items).delta.compute_id,
              Head(items).delta.delete_nics[i].network_id>>]
         \o DeleteCalls(Tail(items))

HandledItems ==
    IF task = "HandleNetworkDeltas" THEN args.deltas
    ELSE <<[amp_id |-> args.amphora, delta |-> args.delta]>>

AddingOps == {"plug_network", "get_port", "get_network", "get_subnet"}

\* C8: in HandleNetworkDelta.execute and HandleNetworkDeltas.execute, given
\* deltas, no error of unplug_network for a delete_nics entry aborts the
\* step: a step that raised did so on an error raised while adding a
\* network, and a step that did not has called unplug_network for every
\* delete_nics entry, whatever the earlier unplug calls answered
C8_OnlyAddingAborts ==
    (/\ task \in {"HandleNetworkDelta", "HandleNetworkDeltas"}
     /\ phase = "executed"
     /\ \A i \in DOMAIN HandledItems : ~IsNone(HandledItems[i].delta))
    => IF raised # "none"
         THEN /\ execCalls # <<>>
              /\ Last(execCalls).op \in AddingOps
              /\ Last(execCalls).out = raised
         ELSE CallArgs(OfOp(execCalls, "unplug_network"))
                = DeleteCalls(HandledItems)

\* execute went on to the next delete_nics entry after an unplug_network
\* that failed, and returned
C8_Witness ==
    /\ task = "HandleNetworkDeltas"
    /\ phase = "executed"
    /\ raised = "none"
    /\ \E i, j \in DOMAIN execCalls :
          /\ i < j
          /\ execCalls[i].op = "unplug_network"
          /\ execCalls[i].out = "Exception"
          /\ execCalls[j].op = "unplug_network"

\* C9: HandleNetworkDeltas applied to a mapping holding one delta issues
\* the same backend calls, returns the same result and raises or swallows
\* the same errors, in execute and in revert, as HandleNetworkDelta
\* applied to that delta
C9_SameSemantics ==
    task = "HandleNetworkDelta"
    => LET items == <<[amp_id |-> args.amphora, delta |-> args.delta]>>
       IN  /\ phase = "ready"
                => HandleNetworkDeltas_execute(plugged, items)
                     = HandleNetworkDelta_execute(plugged, args.amphora,
                                                  args.delta)
           /\ phase = "executed"
                => HandleNetworkDeltas_revert(plugged, outcome, items)
                     = HandleNetworkDelta_revert(plugged, outcome,
                                                 args.amphora, args.delta)

\* HandleNetworkDelta.revert swallowed the error of an unplug_network that
\* HandleNetworkDeltas.revert raises
C9_Witness ==
    /\ RevertRan("HandleNetworkDelta")
    /\ ~IsFailure(outcome)
    /\ Len(revCalls) = 1
    /\ revCalls[1].out = "Exception"
    /\ raised = "none"

\* C10: DeletePort.execute with a port id calls delete_port once per
\* attempt until the first success and at most max_retries times, makes
\* no delete_port call after a success, and reports the progress
\* k / max_retries right before the delete_port call of attempt k
C10_BoundedRetries ==
    (ExecuteRan("DeletePort") /\ args.port_id # NoneId)
    => LET dels == OfOp(execCalls, "delete_port")
           n == Len(dels)
       IN  /\ n \in 1..max_retries
           /\ \A k \in 1..(n - 1) : dels[k].out # "ok"
           /\ dels[n].out = "ok" \/ n = max_retries
           /\ \A k \in 1..n :
                 /\ execCalls[2 * k - 1]
                      = Call("update_progress", <<k, max_retries>>, "ok")
                 /\ execCalls[2 * k].op = "delete_port"
                 /\ execCalls[2 * k].args = <<args.port_id>>

\* the first delete_port failed and the second succeeded
C10_Witness ==
    /\ ExecuteRan("DeletePort")
    /\ raised = "none"
    /\ Len(execCalls) = 4
    /\ execCalls[1] = Call("update_progress", <<1, max_retries>>, "ok")
    /\ execCalls[2].out = "Exception"
    /\ execCalls[3] = Call("update_progress", <<2, max_retries>>, "ok")
    /\ execCalls[4] = Call("delete_port", <<args.port_id>>, "ok")

\* C11: when delete_port fails on every attempt, DeletePort.execute with
\* passive_failure false raises the backend error after max_retries
\* attempts and never calls admin_down_port; with passive_failure true it
\* returns without raising and calls admin_down_port exactly once, after
\* the last failed attempt, whatever admin_down_port answers
C11_PassiveFailure ==
    (/\ ExecuteRan("DeletePort")
     /\ args.port_id # NoneId
     /\ \A i \in DOMAIN execCalls :
           execCalls[i].op = "delete_port" => execCalls[i].out # "ok")
    => LET downs == OfOp(execCalls, "admin_down_port")
           dels == OfOp(execCalls, "delete_port")
       IN  /\ Len(dels) = max_retries
           /\ IF args.passive_failure
                 THEN /\ outcome = Result(None)
                      /\ raised = "none"
                      /\ Len(downs) = 1
                      /\ Last(execCalls).op = "admin_down_port"
                      /\ Last(execCalls).args = <<args.port_id>>
                 ELSE /\ outcome = Failure("Exception")
                      /\ raised = "Exception"
                      /\ downs = <<>>

\* every delete_port failed, admin_down_port failed as well, and execute
\* returned
C11_Witness ==
    /\ ExecuteRan("DeletePort")
    /\ args.passive_failure
    /\ Len(OfOp(execCalls, "delete_port")) = max_retries
    /\ \A i \in DOMAIN execCalls : execCalls[i].out # "ok"
                                       \/ execCalls[i].op = "update_progress"
    /\ Last(execCalls) = Call("admin_down_port", <<args.port_id>>, "Exception")
    /\ raised = "none"

\* C12: after set_port_admin_state_up(port_id, False) succeeded,
\* AdminDownPort.execute polls get_port for that port at most max_retries
\* times and makes no poll after one that reported DOWN: when the first
\* poll reports DOWN it returns after exactly one poll, and when no poll
\* reports DOWN it returns without raising after exactly max_retries polls
C12_PollsWithinBudget ==
    (/\ ExecuteRan("AdminDownPort")
     /\ execCalls[1] = Call("set_port_admin_state_up", <<args.port_id, 0>>,
                            "ok"))
    => LET polls == SubSeq(execCalls, 2, Len(execCalls))
           n == Len(polls)
       IN  /\ n \in 1..max_retries
           /\ \A i \in 1..n : /\ polls[i].op = "get_port"
                               /\ polls[i].args = <<args.port_id>>
           /\ \A i \in 1..(n - 1) : polls[i].out \in PortStatuses \ {DOWN}
           /\ polls[1].out = DOWN => n = 1 /\ outcome = Result(None)
           /\ (\A i \in 1..n : polls[i].out \in PortStatuses \ {DOWN})
                => n = max_retries /\ outcome = Result(None)

\* no poll reported DOWN and execute returned after the last of them
C12_Witness ==
    /\ task = "AdminDownPort"
    /\ phase = "executed"
    /\ raised = "none"
    /\ execCalls[1].out = "ok"
    /\ Len(execCalls) = 1 + max_retries
    /\ \A i \in 2..Len(execCalls) : execCalls[i].out = "ACTIVE"

\* C13: after CreateVIPBasePort.execute returned, CreateVIPBasePort.revert
\* given the value execute returned calls delete_port for the port execute
\* created, and does not raise when that deletion fails
C13_RevertDeletesCreatedPorts ==
    (RevertRan("CreateVIPBasePort") /\ ~IsFailure(outcome))
    => /\ CallArgs(OfOp(revCalls, "delete_port"))
            = [i \in DOMAIN outcome.value |-> <<outcome.value[i].id>>]
       /\ raised = "none"

\* execute created a port, and revert given that port returned without a
\* delete_port call
C13_Witness ==
    /\ RevertRan("CreateVIPBasePort")
    /\ ~IsFailure(outcome)
    /\ Last(execCalls).op = "create_port"
    /\ Last(execCalls).out = "ok"
    /\ OfOp(revCalls, "delete_port") = <<>>
    /\ raised = "none"

QosTasks == {"ApplyQos", "ApplyQosAmphora"}

\* the amphorae a QoS step is asked to act on
QosTargets ==
    IF task = "ApplyQos"
      THEN IF IsNone(args.amps_data) \/ args.amps_data.list = <<>>
             THEN args.loadbalancer.amphorae
             ELSE args.amps_data.list
    ELSE IF IsNone(args.amp_data) THEN <<>>
    ELSE <<args.amp_data.id>>

\* apply_qos_on_port(qos_policy_id, vrrp_port_id) for each of the targets
ApplyCalls(qos_policy_id, targets) ==
    [i \in DOMAIN targets |->
        <<qos_policy_id, amphorae[targets[i]].vrrp_port_id>>]

IsPrefix(s, t) == Len(s) <= Len(t) /\ s = SubSeq(t, 1, Len(s))

\* C14: ApplyQos.revert and ApplyQosAmphora.revert, having fetched the
\* load balancer from persistence, make no apply_qos_on_port call when the
\* requested policy id equals the persisted one; when the two differ they
\* call apply_qos_on_port with the persisted id on the VRRP ports of the
\* targets, in order, on all of them unless one of the calls fails
C14_RevertComparesPolicies ==
    (/\ task \in QosTasks
     /\ phase = "reverted"
     /\ QosTargets # <<>>
     /\ revCalls[1].out = "ok")
    => LET applies == SubSeq(revCalls, 2, Len(revCalls))
           wanted == ApplyCalls(persisted, QosTargets)
       IN  /\ revCalls[1] = Call("get_current_loadbalancer_from_db",
                                 <<args.loadbalancer.id>>, "ok")
           /\ \A i \in DOMAIN applies : applies[i].op = "apply_qos_on_port"
           /\ IF args.loadbalancer.vip.qos_policy_id = persisted
                 THEN applies = <<>> /\ raised = "none"
                 ELSE /\ applies # <<>>
                      /\ IsPrefix(CallArgs(applies), wanted)
                      /\ \/ Len(applies) = Len(wanted)
                         \/ Last(applies).out # "ok"

\* the persisted policy differs from the requested one and revert applied
\* it to the VRRP port of each of the two amphorae
C14_Witness ==
    /\ RevertRan("ApplyQos")
    /\ persisted \in QosIds
    /\ args.loadbalancer.vip.qos_policy_id \in QosIds \ {persisted}
    /\ Len(revCalls) = 3
    /\ revCalls[2] = Call("apply_qos_on_port",
                          <<persisted, amphorae[1].vrrp_port_id>>, "ok")
    /\ revCalls[3] = Call("apply_qos_on_port",
                          <<persisted, amphorae[2].vrrp_port_id>>, "ok")

\* the update request names vip.qos_policy_id
NamesQos(update_dict) == ~IsNone(update_dict) /\ ~LacksQos(update_dict)

\* neither the Vip nor the update request's vip.qos_policy_id holds an id
NoPolicyId ==
    /\ args.loadbalancer.vip.qos_policy_id = NoneId
    /\ NamesQos(args.update_dict) => args.update_dict.qos_policy_id = NoneId

\* C15 as stated: ApplyQos.execute makes no apply_qos_on_port call when
\* neither the Vip nor the update request's vip.qos_policy_id field holds
\* a policy id
C15_AsStated ==
    (ExecuteRan("ApplyQos") /\ NoPolicyId)
    => OfOp(execCalls, "apply_qos_on_port") = <<>>

\* C15: ApplyQos.execute makes no call and returns when the Vip holds no
\* policy id and the update request is missing, empty or has no
\* vip.qos_policy_id key; when the Vip holds no policy id and the update
\* request has that key, whatever its value, execute calls
\* apply_qos_on_port
C15_SkipsWithoutPolicy ==
    (ExecuteRan("ApplyQos") /\ args.loadbalancer.vip.qos_policy_id = NoneId)
    => IF NamesQos(args.update_dict)
         THEN /\ execCalls # <<>>
              /\ \A i \in DOMAIN execCalls :
                    execCalls[i].op = "apply_qos_on_port"
         ELSE execCalls = <<>> /\ outcome = Result(None)

\* no policy on the Vip, an update of the name only: execute made no call
C15_Witness ==
    /\ task = "ApplyQos"
    /\ phase = "executed"
    /\ args.loadbalancer.vip.qos_policy_id = NoneId
    /\ ~IsNone(args.update_dict)
    /\ args.update_dict.keys = {"name"}
    /\ execCalls = <<>>
    /\ raised = "none"

\* C16: ApplyQosAmphora.execute makes no apply_qos_on_port call when no
\* policy id is resolvable from the Vip or from the update request, the
\* case of no update request at all included
C16_AmphoraSkipsWithoutPolicy ==
    (ExecuteRan("ApplyQosAmphora") /\ NoPolicyId)
    => OfOp(execCalls, "apply_qos_on_port") = <<>>

\* no policy on the Vip and no update request: execute called
\* apply_qos_on_port with a null policy id
C16_Witness ==
    /\ task = "ApplyQosAmphora"
    /\ phase = "executed"
    /\ args.loadbalancer.vip.qos_policy_id = NoneId
    /\ IsNone(args.update_dict)
    /\ ~IsNone(args.amp_data)
    /\ execCalls
         = <<Call("apply_qos_on_port",
                  <<NoneId, amphorae[args.amp_data.id].vrrp_port_id>>,
                  "ok")>>

\* the requested policy id: that of the Vip or, when the Vip has none, that
\* of the update request's vip.qos_policy_id
ResolvedPolicyId ==
    IF args.loadbalancer.vip.qos_policy_id # NoneId
      THEN args.loadbalancer.vip.qos_policy_id
    ELSE IF NamesQos(args.update_dict) THEN args.update_dict.qos_policy_id
    ELSE NoneId

\* C17: every apply_qos_on_port call of ApplyQos.execute and of
\* ApplyQosAmphora.execute passes the requested policy id, resolved from
\* the Vip or, when the Vip has none, from the update request's
\* vip.qos_policy_id
C17_AppliesResolvedPolicy ==
    (task \in QosTasks /\ phase \in {"executed", "reverted"})
    => \A i \in DOMAIN execCalls :
          execCalls[i].op = "apply_qos_on_port"
          => execCalls[i].args[1] = ResolvedPolicyId

\* the Vip has no policy, the update request asks for one, and execute
\* applied a null policy id
C17_Witness ==
    /\ task = "ApplyQos"
    /\ phase = "executed"
    /\ args.loadbalancer.vip.qos_policy_id = NoneId
    /\ NamesQos(args.update_dict)
    /\ args.update_dict.qos_policy_id \in QosIds
    /\ execCalls # <<>>
    /\ execCalls[1].op = "apply_qos_on_port"
    /\ execCalls[1].args[1] = NoneId

\* C18: when the Vip holds a policy id, ApplyQos.execute calls
\* apply_qos_on_port with that id once for the VRRP port of each target
\* amphora, in order, and for no other port, the targets being the
\* amphorae the caller supplied or, when the caller supplied none, all
\* amphorae of the load balancer; it stops only at a call that fails, whose
\* error it raises
C18_OncePerTarget ==
    (ExecuteRan("ApplyQos") /\ args.loadbalancer.vip.qos_policy_id # NoneId)
    => LET wanted == ApplyCalls(args.loadbalancer.vip.qos_policy_id,
                                QosTargets)
       IN  /\ \A i \in DOMAIN execCalls :
                 execCalls[i].op = "apply_qos_on_port"
           /\ IF IsFailure(outcome)
                 THEN /\ execCalls # <<>>
                      /\ IsPrefix(CallArgs(execCalls), wanted)
                      /\ Last(execCalls).out = outcome.value
                      /\ \A i \in 1..(Len(execCalls) - 1) :
                            execCalls[i].out = "ok"
                 ELSE /\ CallArgs(execCalls) = wanted
                      /\ \A i \in DOMAIN execCalls : execCalls[i].out = "ok"

\* the caller supplied no amphorae and execute applied the policy to the
\* VRRP port of each of the two amphorae of the load balancer
C18_Witness ==
    /\ task = "ApplyQos"
    /\ phase = "executed"
    /\ IsNone(args.amps_data)
    /\ args.loadbalancer.vip.qos_policy_id \in QosIds
    /\ raised = "none"
    /\ CallArgs(execCalls)
         = <<<<args.loadbalancer.vip.qos_policy_id, amphorae[1].vrrp_port_id>>,
             <<args.loadbalancer.vip.qos_policy_id, amphorae[2].vrrp_port_id>>>>

\* C19: a failure of apply_qos_on_port in ApplyQosAmphora.execute leaves
\* execute as that exception; a failure of apply_qos_on_port in
\* ApplyQosAmphora.revert is swallowed and revert returns normally
C19_ForwardRaisesRevertSwallows ==
    task = "ApplyQosAmphora"
    => /\ (/\ phase \in {"executed", "reverted"}
           /\ execCalls # <<>>
           /\ Last(execCalls).out = "Exception")
          => outcome = Failure("Exception")
       /\ (/\ phase = "reverted"
           /\ Last(revCalls).op = "apply_qos_on_port"
           /\ Last(revCalls).out = "Exception")
          => raised = "none"

\* apply_qos_on_port failed in execute, which raised, and failed again in
\* revert, which returned
C19_Witness ==
    /\ RevertRan("ApplyQosAmphora")
    /\ outcome = Failure("Exception")
    /\ Last(execCalls).op = "apply_qos_on_port"
    /\ Last(revCalls).op = "apply_qos_on_port"
    /\ Last(revCalls).out = "Exception"
    /\ raised = "none"

\* C20: ApplyQos.revert never raises: a failure of apply_qos_on_port while
\* it applies the persisted policy again is swallowed and revert returns
C20_FleetRevertNeverRaises ==
    (/\ RevertRan("ApplyQos")
     /\ Last(revCalls).op = "apply_qos_on_port")
    => raised = "none"

\* apply_qos_on_port failed for the first amphora, revert raised and left
\* the second amphora alone
C20_Witness ==
    /\ RevertRan("ApplyQos")
    /\ IsNone(args.amps_data)
    /\ Len(revCalls) = 2
    /\ revCalls[2].op = "apply_qos_on_port"
    /\ revCalls[2].out = "Exception"
    /\ raised = "Exception"

\* the network of the VRRP port and the networks of the members
VrrpNetwork == PortNetwork(amphorae[args.amphora].vrrp_port_id)
NeededByTraffic == {VrrpNetwork} \cup MemberNetworks(args.loadbalancer.pools)

\* C21: when the availability zone names a management network N2, the
\* delta CalculateAmphoraDelta.execute returns treats N2 as desired (added
\* when not plugged, never deleted) and treats a configured management
\* network other than N2 as desired only if it is the VRRP port's network
\* or a member's network (otherwise never added, and deleted when plugged)
C21_ZoneNetworkReplaces ==
    (/\ Returned("CalculateAmphoraDelta")
     /\ ~IsNone(args.availability_zone)
     /\ args.availability_zone.management_network # NoneId)
    => LET d == outcome.value[1]
           N2 == args.availability_zone.management_network
           A == PluggedNetworks(plugged, args.amphora)
           adds == NetworkSet(d.add_nics)
           dels == NetworkSet(d.delete_nics)
       IN  /\ N2 \in adds <=> N2 \notin A
           /\ N2 \notin dels
           /\ \A N1 \in Range(amp_boot_network_list) \ ({N2} \cup NeededByTraffic) :
                 /\ N1 \notin adds
                 /\ N1 \in dels <=> N1 \in A

\* the zone names network 2, the configured network 1 is plugged and not
\* otherwise needed: the delta deletes the NIC on network 1
C21_Witness ==
    /\ Returned("CalculateAmphoraDelta")
    /\ ~IsNone(args.availability_zone)
    /\ args.availability_zone.management_network = 2
    /\ amp_boot_network_list = <<1>>
    /\ 1 \notin NeededByTraffic
    /\ 1 \in NetworkSet(outcome.value[1].delete_nics)

\* C22: when the availability zone is given without a management network,
\* the delta CalculateAmphoraDelta.execute returns treats the configured
\* management networks as desired (added when not plugged, never deleted)
\* and names no null network id
C22_ZoneWithoutNetwork ==
    (/\ Returned("CalculateAmphoraDelta")
     /\ ~IsNone(args.availability_zone)
     /\ args.availability_zone.management_network = NoneId)
    => LET d == outcome.value[1]
           A == PluggedNetworks(plugged, args.amphora)
           adds == NetworkSet(d.add_nics)
           dels == NetworkSet(d.delete_nics)
       IN  /\ NoneId \notin adds
           /\ \A N1 \in Range(amp_boot_network_list) :
                 /\ N1 \in adds <=> N1 \notin A
                 /\ N1 \notin dels

\* the zone has no management network: the delta adds an interface without
\* a network id and deletes the NIC on the configured network
C22_Witness ==
    /\ Returned("CalculateAmphoraDelta")
    /\ ~IsNone(args.availability_zone)
    /\ args.availability_zone.management_network = NoneId
    /\ NoneId \in NetworkSet(outcome.value[1].add_nics)
    /\ amp_boot_network_list[1]
         \in NetworkSet(outcome.value[1].delete_nics)

\* the amphorae of the load balancer whose status is ALLOCATED
Allocated ==
    {a \in Amps : args.loadbalancer.amphorae[a] = AMPHORA_ALLOCATED}

\* the deltas CalculateAmphoraDelta.execute returns for amphora a of the
\* load balancer and the zone CalculateDelta was given
DeltasOf(a) ==
    {r.ret[1] : r \in {r \in CalculateAmphoraDelta_execute(
                                 Run(plugged), amphorae,
                                 args.loadbalancer.pools, a,
                                 args.availability_zone, None) :
                          r.exc = "none"}}

\* the amphora a backend call of the reconciler is made for, NoneId when
\* the call names none
CallAmphora(c) ==
    IF c.op = "get_plugged_networks" THEN c.args[1]
    ELSE IF c.op = "get_port" THEN c.args[1] \div 100
    ELSE NoneId

\* C23: the mapping CalculateDelta.execute returns has as keys exactly the
\* ids of the amphorae whose status is ALLOCATED, each with a delta that
\* CalculateAmphoraDelta.execute computes for that amphora; and no call
\* of execute, returned or not, is made for an amphora in another status
C23_AllocatedOnly ==
    (task = "CalculateDelta" /\ phase = "executed")
    => /\ \A i \in DOMAIN execCalls :
             CallAmphora(execCalls[i]) \in Allocated \cup {NoneId}
       /\ Allocated = {} => execCalls = <<>> /\ raised = "none"
       /\ raised = "none"
            => LET items == outcome.value
               IN  /\ {items[i].amp_id : i \in DOMAIN items} = Allocated
                   /\ Len(items) = Cardinality(Allocated)
                   /\ \A i \in DOMAIN items :
                         items[i].delta \in DeltasOf(items[i].amp_id)

\* the first amphora is not allocated, the second is: the mapping has the
\* delta of the second alone
C23_Witness ==
    /\ Returned("CalculateDelta")
    /\ args.loadbalancer.amphorae[1] # AMPHORA_ALLOCATED
    /\ Len(outcome.value) = 1
    /\ outcome.value[1].amp_id = 2
    /\ outcome.value[1].delta.add_nics # <<>>
    /\ execCalls # <<>>

ReadOps == {"get_port", "get_subnet", "get_plugged_networks"}

\* the runs of CalculateAmphoraDelta.execute started again, on the same
\* inputs, from the state the first run left
SecondRuns ==
    CalculateAmphoraDelta_execute(Run(plugged), amphorae,
                                  args.loadbalancer.pools, args.amphora,
                                  args.availability_zone, args.vrrp_port)

\* the networks the amphora is to be attached to: the VRRP port's, the
\* zone's management network or else the configured ones, the members'
WantedNetworks ==
    NeededByTraffic
      \cup (IF ~IsNone(args.availability_zone)
                /\ args.availability_zone.management_network # NoneId
              THEN {args.availability_zone.management_network}
              ELSE Range(amp_boot_network_list))

\* C24: CalculateAmphoraDelta.execute makes only read calls and raises
\* only what one of them raised; a second run on the same inputs leaves
\* the attachments as they are and, when it returns, names the same
\* networks to add and to delete as the first; and when the attached
\* networks equal the wanted ones, zero pools and members without subnet
\* included, both runs return empty add_nics and delete_nics
C24_Idempotent ==
    (task = "CalculateAmphoraDelta" /\ phase = "executed")
    => LET A == PluggedNetworks(plugged, args.amphora)
           Empty(d) == d.add_nics = <<>> /\ d.delete_nics = <<>>
       IN  /\ \A i \in DOMAIN execCalls : execCalls[i].op \in ReadOps
           /\ raised # "none" => Last(execCalls).out = raised
           /\ \A r \in SecondRuns : r.plugged = plugged
           /\ raised = "none"
                => LET d == outcome.value[1]
                   IN  /\ A = WantedNetworks => Empty(d)
                       /\ \A r \in SecondRuns :
                             r.exc = "none"
                             => /\ NetworkSet(r.ret[1].add_nics)
                                     = NetworkSet(d.add_nics)
                                /\ NetworkSet(r.ret[1].delete_nics)
                                     = NetworkSet(d.delete_nics)
                                /\ A = WantedNetworks => Empty(r.ret[1])

\* the same without the zones that have no management network
IdempotentWithZoneNetwork ==
    (~IsNone(args.availability_zone)
       => args.availability_zone.management_network # NoneId)
    => C24_Idempotent

\* a zone without management network, no pools, the amphora attached to
\* the VRRP network and to the configured management network: the delta
\* is not empty
C24_Witness ==
    /\ Returned("CalculateAmphoraDelta")
    /\ args.loadbalancer.pools = <<>>
    /\ ~IsNone(args.availability_zone)
    /\ PluggedNetworks(plugged, args.amphora) = WantedNetworks
    /\ outcome.value[1].add_nics # <<>>
    /\ outcome.value[1].delete_nics # <<>>

\* C25: when a get_port, get_subnet or get_plugged_networks call of
\* CalculateAmphoraDelta.execute or CalculateDelta.execute fails, that
\* call is the last one, its error is the outcome of execute and nothing
\* is returned, the deltas of the amphorae done before included
C25_ReadErrorsPropagate ==
    (task \in {"CalculateAmphoraDelta", "CalculateDelta"}
       /\ phase = "executed")
    => \A i \in DOMAIN execCalls :
          (execCalls[i].op \in ReadOps /\ execCalls[i].out # "ok")
          => /\ i = Len(execCalls)
             /\ raised = execCalls[i].out
             /\ outcome = Failure(execCalls[i].out)

\* the delta of the first amphora was computed, a call for the second
\* failed, and execute raised
C25_Witness ==
    /\ task = "CalculateDelta"
    /\ phase = "executed"
    /\ \E i \in DOMAIN execCalls :
          execCalls[i] = Call("get_plugged_networks", <<1>>, "ok")
    /\ CallAmphora(Last(execCalls)) = 2
    /\ Last(execCalls).out = "Exception"
    /\ outcome = Failure("Exception")

\* <<compute id, network id>> for each NIC of a list
NicCalls(c, nics) == [i \in DOMAIN nics |-> <<c, nics[i].network_id>>]

\* C26: when HandleNetworkDelta.execute returned, it has called
\* plug_network once per add_nics entry and unplug_network once per
\* delete_nics entry, in order, has read the port, its network and the
\* subnet of each of its fixed IPs after each plug, and its result maps
\* the amphora id to the list of these ports, in add_nics order, each with
\* network and subnets filled in; the list is empty when add_nics is
C26_ResultHoldsResolvedPorts ==
    (/\ ExecuteRan("HandleNetworkDelta")
     /\ ~IsFailure(outcome))
    => LET d == args.delta
           c == d.compute_id
           ports == [i \in DOMAIN d.add_nics |->
                       PortId(c, d.add_nics[i].network_id)]
       IN  /\ CallArgs(OfOp(execCalls, "plug_network"))
                = NicCalls(c, d.add_nics)
           /\ CallArgs(OfOp(execCalls, "unplug_network"))
                = NicCalls(c, d.delete_nics)
           /\ CallArgs(OfOp(execCalls, "get_port"))
                = [i \in DOMAIN ports |-> <<ports[i]>>]
           /\ CallArgs(OfOp(execCalls, "get_network"))
                = [i \in DOMAIN ports |-> <<PortNetwork(ports[i])>>]
           /\ CallArgs(OfOp(execCalls, "get_subnet"))
                = [i \in DOMAIN ports |-> <<SubnetOf(PortNetwork(ports[i]))>>]
           /\ \A i \in DOMAIN ports : execCalls[4 * i - 3].op = "plug_network"
           /\ outcome.value
                = <<[amp_id |-> args.amphora,
                     ports |-> [i \in DOMAIN ports |->
                                  ResolvedPort(ports[i])]]>>
           /\ \A i \in DOMAIN ports :
                 /\ outcome.value[1].ports[i].network.id
                      = d.add_nics[i].network_id
                 /\ \A j \in DOMAIN outcome.value[1].ports[i].fixed_ips :
                       outcome.value[1].ports[i].fixed_ips[j].subnet.id
                         = outcome.value[1].ports[i].fixed_ips[j].subnet_id

\* execute plugged a network, unplugged another and returned the port
C26_Witness ==
    /\ task = "HandleNetworkDelta"
    /\ phase = "executed"
    /\ raised = "none"
    /\ args.delta.add_nics # <<>>
    /\ args.delta.delete_nics # <<>>
    /\ Len(outcome.value[1].ports) = Len(args.delta.add_nics)
    /\ Last(execCalls).op = "unplug_network"

C28_FailoverKeepsVip ==
    /\ (RevertRan("AllocateVIP") /\ ~IsFailure(outcome))
       => /\ CallArgs(revCalls) = <<<<outcome.value[1].port_id>>>>
          /\ revCalls[1].op = "deallocate_vip"
          /\ outcome.value[1] = args.loadbalancer.vip
          /\ raised = "none"
    /\ RevertRan("AllocateVIPforFailover")
       => revCalls = <<>> /\ raised = "none"

\* the allocation succeeded and the failover revert left it alone
C28_Witness ==
    /\ RevertRan("AllocateVIPforFailover")
    /\ ~IsFailure(outcome)
    /\ execCalls = <<Call("allocate_vip", <<args.loadbalancer.id>>, "ok")>>
    /\ revCalls = <<>>

\* C29: PlugVIP.revert and PlugVIPAmpphora.revert, given the result of an
\* execute that returned, make exactly one call, unplug_vip for the load
\* balancer or unplug_aap_port for the amphora and subnet, on amphora
\* objects that already carry the vrrp_port_id and ha_port_id of the
\* result, and return normally whatever that call answered
C29_CopyThenUnplug ==
    /\ (RevertRan("PlugVIP") /\ ~IsFailure(outcome))
       => LET lb == args.loadbalancer
          IN  /\ Len(revCalls) = 1
              /\ revCalls[1].op = "unplug_vip"
              /\ revCalls[1].args
                   = <<lb.id>>
                       \o [i \in DOMAIN outcome.value |->
                             outcome.value[i].vrrp_port_id]
                       \o [i \in DOMAIN outcome.value |->
                             outcome.value[i].ha_port_id]
              /\ \A i \in DOMAIN outcome.value :
                    /\ amphorae[outcome.value[i].id].vrrp_port_id
                         = outcome.value[i].vrrp_port_id
                    /\ amphorae[outcome.value[i].id].ha_port_id
                         = outcome.value[i].ha_port_id
              /\ raised = "none"
    /\ (RevertRan("PlugVIPAmpphora") /\ ~IsFailure(outcome))
       => /\ revCalls
               = <<Call("unplug_aap_port",
                        <<args.amphora, args.subnet,
                          outcome.value[1].vrrp_port_id,
                          outcome.value[1].ha_port_id>>,
                        revCalls[1].out)>>
          /\ amphorae[args.amphora].vrrp_port_id
               = outcome.value[1].vrrp_port_id
          /\ amphorae[args.amphora].ha_port_id = outcome.value[1].ha_port_id
          /\ \A a \in Amps \ {args.amphora} : amphorae[a] = AmphoraeOn(1)[a]
          /\ raised = "none"

\* the port ids were copied, unplug_vip failed, and revert returned
C29_Witness ==
    /\ RevertRan("PlugVIP")
    /\ ~IsFailure(outcome)
    /\ revCalls[1].out = "Exception"
    /\ amphorae # AmphoraeOn(1)
    /\ amphorae[1].vrrp_port_id = outcome.value[1].vrrp_port_id
    /\ raised = "none"

\* every delta handed to the step is there and has nothing to add and
\* nothing to delete
AllDeltasEmpty ==
    \A i \in DOMAIN HandledItems :
       /\ ~IsNone(HandledItems[i].delta)
       /\ HandledItems[i].delta.add_nics = <<>>
       /\ HandledItems[i].delta.delete_nics = <<>>

\* C30: the execute of PlugNetworks, UnPlugNetworks, HandleNetworkDelta
\* and HandleNetworkDeltas makes no backend call and returns when the
\* add_nics and delete_nics of the deltas it is given are empty, and so
\* does the execute of PlugNetworks and UnPlugNetworks given no delta
C30_EmptyDeltaNoCalls ==
    (task \in DeltaTasks /\ phase \in {"executed", "reverted"})
    => /\ AllDeltasEmpty => execCalls = <<>> /\ ~IsFailure(outcome)
       /\ (task \in {"PlugNetworks", "UnPlugNetworks"}
             /\ IsNone(args.delta))
          => execCalls = <<>> /\ ~IsFailure(outcome)

\* HandleNetworkDelta.execute, given an empty delta, made no call and
\* returned an empty list of ports for the amphora
C30_Witness ==
    /\ task = "HandleNetworkDelta"
    /\ phase = "executed"
    /\ AllDeltasEmpty
    /\ execCalls = <<>>
    /\ outcome = Result(<<[amp_id |-> args.amphora, ports |-> <<>>]>>)

\* C31: GetVIPSecurityGroupID.execute returns the id of the security
\* group named after the load balancer when get_security_group finds it;
\* when get_security_group raises SecurityGroupNotFound, execute raises it
\* if the driver has security groups enabled and returns no id if not
C31_SecurityGroupLookup ==
    ExecuteRan("GetVIPSecurityGroupID")
    => /\ execCalls[1].op = "get_security_group"
       /\ execCalls[1].args = <<args.loadbalancer_id>>
       /\ Len(execCalls) = 1
       /\ execCalls[1].out = "ok"
            => outcome = Result(<<SecurityGroupIdOf(args.loadbalancer_id)>>)
       /\ execCalls[1].out = "SecurityGroupNotFound"
            => IF args.sec_grp_enabled
                 THEN outcome = Failure("SecurityGroupNotFound")
                 ELSE outcome = Result(<<NoneId>>)

\* security groups are enabled, the group is missing, and execute raised
C31_Witness ==
    /\ ExecuteRan("GetVIPSecurityGroupID")
    /\ args.sec_grp_enabled
    /\ execCalls[1].out = "SecurityGroupNotFound"
    /\ raised = "SecurityGroupNotFound"

\* C32: every call of CreateVIPBasePort.execute is create_port on the
\* VIP's network with the prefixed amphora id as name, the VIP's subnet
\* as the one fixed IP, the VIP's address as the one secondary IP, the
\* list [vip_sg_id] (empty without an id) and the VIP's QoS policy; a
\* failed create is tried again, at most max_retries attempts in all, and
\* when all of them failed execute raises the error
C32_CreatesBasePort ==
    ExecuteRan("CreateVIPBasePort")
    => /\ Len(execCalls) \in 1..max_retries
       /\ \A i \in DOMAIN execCalls :
             /\ execCalls[i].op = "create_port"
             /\ execCalls[i].args
                  = <<args.vip.network_id,
                      AMP_BASE_PORT_PREFIX + args.amphora_id,
                      args.vip.subnet_id, args.vip.ip_address,
                      args.vip.qos_policy_id>>
                    \o (IF args.vip_sg_id = NoneId THEN <<>>
                        ELSE <<args.vip_sg_id>>)
             /\ i < Len(execCalls) => execCalls[i].out = "Exception"
       /\ IF Last(execCalls).out = "ok"
            THEN ~IsFailure(outcome)
            ELSE /\ Len(execCalls) = max_retries
                 /\ outcome = Failure("Exception")

\* every attempt failed and execute raised
C32_Witness ==
    /\ ExecuteRan("CreateVIPBasePort")
    /\ Len(execCalls) = max_retries
    /\ \A i \in DOMAIN execCalls : execCalls[i].out = "Exception"
    /\ raised = "Exception"
    /\ args.vip_sg_id # NoneId

\* C33: when set_port_admin_state_up(port_id, False) raises PortNotFound,
\* AdminDownPort.execute returns without raising and without any get_port
\* poll: the failed call is its only call
C33_MissingPortIsDown ==
    (/\ ExecuteRan("AdminDownPort")
     /\ execCalls[1].out = "PortNotFound")
    => /\ execCalls = <<Call("set_port_admin_state_up", <<args.port_id, 0>>,
                             "PortNotFound")>>
       /\ outcome = Result(None)
       /\ phase = "executed" => raised = "none"

\* the port was not found and execute returned
C33_Witness ==
    /\ task = "AdminDownPort"
    /\ phase = "executed"
    /\ execCalls[1].out = "PortNotFound"
    /\ raised = "none"

\* C34: AdminDownPort.revert given the result of an execute that returned
\* calls set_port_admin_state_up(port_id, True) exactly once, makes no
\* other call, and returns normally whatever that call raises
C34_RevertBringsPortUp ==
    (RevertRan("AdminDownPort") /\ ~IsFailure(outcome))
    => /\ Len(revCalls) = 1
       /\ revCalls[1].op = "set_port_admin_state_up"
       /\ revCalls[1].args = <<args.port_id, 1>>
       /\ raised = "none"

\* bringing the port up failed and revert returned
C34_Witness ==
    /\ RevertRan("AdminDownPort")
    /\ ~IsFailure(outcome)
    /\ revCalls[1].out = "Exception"
    /\ raised = "none"

\* C35: DeletePort.execute given no port id makes no backend call, reports
\* no progress and returns without raising, whatever passive_failure is
C35_NoPortNoOp ==
    (ExecuteRan("DeletePort") /\ args.port_id = NoneId)
    => /\ execCalls = <<>>
       /\ outcome = Result(None)
       /\ raised = "none"

\* execute ran without a port id and with passive_failure set
C35_Witness ==
    /\ ExecuteRan("DeletePort")
    /\ args.port_id = NoneId
    /\ args.passive_failure

\* C38: the reverts of PlugNetworks, HandleNetworkDelta and
\* HandleNetworkDeltas never call plug_network, so a NIC that execute
\* unplugged for delete_nics is still detached after the revert
C38_RevertIsNoInverse ==
    (phase = "reverted" /\ task \in {"PlugNetworks", "HandleNetworkDelta",
                                      "HandleNetworkDeltas"})
    => /\ \A i \in DOMAIN revCalls : revCalls[i].op # "plug_network"
       /\ \A i \in DOMAIN execCalls :
             (execCalls[i].op = "unplug_network" /\ execCalls[i].out = "ok")
             => plugged[execCalls[i].args[1]][execCalls[i].args[2]] = 0

\* execute added a NIC and removed another, and revert removed the added
\* one again
C38_Witness ==
    /\ RevertRan("HandleNetworkDelta")
    /\ ~IsFailure(outcome)
    /\ \E i \in DOMAIN execCalls :
          execCalls[i].op = "unplug_network" /\ execCalls[i].out = "ok"
    /\ \E i \in DOMAIN revCalls :
          revCalls[i].op = "unplug_network" /\ revCalls[i].out = "ok"

\* C39: in HandleNetworkDelta.execute every plug_network call precedes
\* every unplug_network call; when a call made to add a network fails, it
\* is the last call, execute raised, no unplug_network call was made, and
\* the plug_network calls are for a prefix of add_nics that ends with the
\* entry that failed, so the entries after it were not plugged
C39_PlugsBeforeUnplugs ==
    (ExecuteRan("HandleNetworkDelta") /\ ~IsNone(args.delta))
    => LET plugs == OfOp(execCalls, "plug_network")
           unplugs == OfOp(execCalls, "unplug_network")
           failed == {i \in DOMAIN execCalls :
                        /\ execCalls[i].op \in AddingOps
                        /\ execCalls[i].out # "ok"}
       IN  /\ \A i, j \in DOMAIN execCalls :
                 (/\ execCalls[i].op = "plug_network"
                  /\ execCalls[j].op = "unplug_network") => i < j
           /\ IsPrefix(CallArgs(plugs),
                       NicCalls(args.delta.compute_id, args.delta.add_nics))
           /\ unplugs # <<>> => Len(plugs) = Len(args.delta.add_nics)
           /\ failed # {}
                => /\ failed = {Len(execCalls)}
                   /\ IsFailure(outcome)
                   /\ unplugs = <<>>

\* the first of two networks to add failed, with a NIC to delete: the
\* second was not plugged and the NIC was not unplugged
C39_Witness ==
    /\ ExecuteRan("HandleNetworkDelta")
    /\ ~IsNone(args.delta)
    /\ IsFailure(outcome)
    /\ Len(args.delta.add_nics) = 2
    /\ args.delta.delete_nics # <<>>
    /\ Len(OfOp(execCalls, "plug_network")) = 1
    /\ OfOp(execCalls, "unplug_network") = <<>>

\* C40: in every delta CalculateAmphoraDelta.execute returns, no network
\* id occurs twice in add_nics or twice in delete_nics, also when members
\* share a network or several NICs are reported on one network, and the
\* network of the VRRP port does not occur in delete_nics
C40_NoDuplicateNetworks ==
    Returned("CalculateAmphoraDelta") =>
        LET d == outcome.value[1]
            vrrp_network_id ==
                IF IsNone(args.vrrp_port)
                  THEN PortNetwork(amphorae[args.amphora].vrrp_port_id)
                  ELSE args.vrrp_port.network_id
        IN  /\ Distinct(NetworkIds(d.add_nics))
            /\ Distinct(NetworkIds(d.delete_nics))
            /\ vrrp_network_id \notin NetworkSet(d.delete_nics)

\* two members share a network that has to be added and two NICs are
\* reported on a network that has to go
C40_Witness ==
    /\ Returned("CalculateAmphoraDelta")
    /\ \E ms \in Range(args.loadbalancer.pools) :
          /\ Len(ms) = 2
          /\ ms[1] = ms[2]
          /\ ms[1] # NoneId
          /\ NetworkOfSubnet(ms[1]) \in NetworkSet(outcome.value[1].add_nics)
    /\ \E n \in NetworkSet(outcome.value[1].delete_nics) :
          plugged[args.amphora][n] = 2

\* ------------------------------------------------------------------------
\* Properties of the workflow (SpecFlow)
\* ------------------------------------------------------------------------
\* the steps of the workflow that completed, and the one at hand
StepsDone == [i \in DOMAIN args.done |-> args.done[i].task]

\* C36: from an amphora with at most one NIC per network, a workflow that
\* computes a delta with CalculateAmphoraDelta and applies it once, by
\* HandleNetworkDelta or by PlugNetworks and then UnPlugNetworks, reverted
\* or not, never has two NICs of the amphora on one network
C36_OneNicPerNetwork ==
    \A c \in Amps, n \in NetIds : plugged[c][n] <= 1

\* PlugNetworks added a NIC, UnPlugNetworks ran, the workflow was rolled
\* back and the revert of PlugNetworks failed to remove the NIC
C36_Witness ==
    /\ RevertRan("PlugNetworks")
    /\ StepsDone = <<"CalculateAmphoraDelta">>
    /\ args.rolling
    /\ \E i \in DOMAIN execCalls : execCalls[i].out = "ok"
    /\ \E i \in DOMAIN revCalls :
          /\ revCalls[i].out = "Exception"
          /\ plugged[revCalls[i].args[1]][revCalls[i].args[2]] = 1

====
